---- MODULE Spec2Model ----
(***************************************************************************)
(* Cloudflare DNS Telegram bot: the per-user conversation store            *)
(* (internal/handler/telegram/state.go), the record create / edit wizard   *)
(* of the tgbotapi handler (internal/handler/telegram/bot.go, the Bot that *)
(* starts at line 1131) and the record operations it calls                 *)
(* (internal/usecase/dns_usecase.go).                                      *)
(***************************************************************************)
EXTENDS Integers, Sequences, FiniteSets, TLC

VARIABLES
  states,      \* StateManager.states: user id -> pointer to its UserState
  heap,        \* the UserState objects that are still referenced
  now,         \* time.Now(), in minutes
  mu,          \* StateManager.mu: 0 when free, else the goroutine holding it
  pc,          \* per handler goroutine: position inside a StateManager method
  call,        \* per handler goroutine: the StateManager method being executed
  ref,         \* per handler goroutine: the *UserState returned by GetState
  ret,         \* per handler goroutine: value returned by the last method
  cpc,         \* position of the cleanup goroutine
  lastAccess,  \* history: per user with an entry, time of its last GetState
  sweptIdle,   \* history: per user, a sweep ran while the user was idle
               \* for more than ExpiryMinutes and no lookup came since
  cleared,     \* history: per goroutine between GetState and its field
               \* access, a ClearState ran in between
  msgs,        \* the chat: message id -> what the bot last rendered there,
               \* for the messages the user still looks at
  records,     \* the DNS records of the zone, as the Cloudflare API lists them
  conf,        \* per handler goroutine: position in handleConfirmCreate and
               \* its locals, when the goroutines are stepped one statement
               \* at a time
  creates,     \* history: CreateRecord calls made by these goroutines
  uc           \* the use case: per caller the record operation under way and
               \* its locals, the ids the API has given out, and (history)
               \* the calls that have returned last

vars == <<states, heap, now, mu, pc, call, ref, ret, cpc,
          lastAccess, sweptIdle, cleared, msgs, records, conf, creates, uc>>

chatvars == <<msgs, records, conf, creates, uc>>
procvars == <<now, mu, pc, call, ref, ret, cpc, lastAccess, sweptIdle, cleared,
              uc>>

----------------------------------------------------------------------------
(* Bounds of the model *)

NumProcs == 2        \* handler goroutines that may run at the same time
SweepProcs == 1      \* of these, the ones that run in SpecSweep
MaxClock == 45       \* the clock stops advancing here
TickLen == 15        \* minutes by which one Tick advances the clock

Procs == 1..NumProcs
Users == {1}
ObjIds == 1..(NumProcs + 1)
Cleaner == NumProcs + 1   \* identity of the cleanup goroutine as lock holder

----------------------------------------------------------------------------
(* state.go: Step *)

StepNone == "StepNone"
StepSelectZoneForList == "StepSelectZoneForList"
StepSelectZoneForCreate == "StepSelectZoneForCreate"
StepSelectZoneForManage == "StepSelectZoneForManage"
StepSelectRecordType == "StepSelectRecordType"
StepInputRecordName == "StepInputRecordName"
StepInputRecordContent == "StepInputRecordContent"
StepInputRecordTTL == "StepInputRecordTTL"
StepInputRecordProxied == "StepInputRecordProxied"
StepConfirmCreate == "StepConfirmCreate"
StepSelectRecordForEdit == "StepSelectRecordForEdit"
StepSelectRecordForDelete == "StepSelectRecordForDelete"
StepEditRecordContent == "StepEditRecordContent"
StepEditRecordTTL == "StepEditRecordTTL"
StepEditRecordProxied == "StepEditRecordProxied"
StepConfirmDelete == "StepConfirmDelete"

ExpiryMinutes == 30   \* cleanup: now.Sub(state.LastUpdated) > 30*time.Minute

----------------------------------------------------------------------------
(* state.go: UserState and the StateManager methods, on explicit values.   *)
(* A store value is [states, heap]: the map and the objects it points to.  *)

NoRef == 0
NoData == [k \in {} |-> TRUE]              \* make(map[string]interface{})

Range(f) == {f[x] : x \in DOMAIN f}

SetKey(d, k, v) == [x \in DOMAIN d \cup {k} |-> IF x = k THEN v ELSE d[x]]

NewUserState(u, t) ==
  [UserID |-> u, CurrentStep |-> StepNone, Data |-> NoData, LastUpdated |-> t]

\* objects that the map or some goroutine still points to
Live(st, rf) == Range(st) \cup (Range(rf) \ {NoRef})

\* the garbage collector: objects nobody points to disappear
Collect(st, hp, rf) == [o \in (DOMAIN hp) \cap Live(st, rf) |-> hp[o]]

NewObj(hp) == CHOOSE o \in ObjIds \ DOMAIN hp :
                \A o2 \in ObjIds \ DOMAIN hp : o <= o2

\* GetState as it would be without state.LastUpdated = time.Now()
GetStateNoRefresh(s, u, t) ==
  IF u \in DOMAIN s.states
  THEN [states |-> s.states, heap |-> s.heap, ref |-> s.states[u]]
  ELSE LET o == NewObj(s.heap) IN
       [states |-> [x \in DOMAIN s.states \cup {u} |->
                      IF x = u THEN o ELSE s.states[x]],
        heap |-> [x \in DOMAIN s.heap \cup {o} |->
                      IF x = o THEN NewUserState(u, t) ELSE s.heap[x]],
        ref |-> o]

\* GetState body, between Lock and the deferred Unlock
GetState(s, u, t) ==
  IF u \in DOMAIN s.states
  THEN [states |-> s.states,
        heap |-> [s.heap EXCEPT ![s.states[u]].LastUpdated = t],
        ref |-> s.states[u]]
  ELSE LET o == NewObj(s.heap) IN
       [states |-> [x \in DOMAIN s.states \cup {u} |->
                      IF x = u THEN o ELSE s.states[x]],
        heap |-> [x \in DOMAIN s.heap \cup {o} |->
                      IF x = o THEN NewUserState(u, t) ELSE s.heap[x]],
        ref |-> o]

\* a ClearState that empties the whole map
ClearEveryState(s, u) == [states |-> NoData, heap |-> s.heap]

\* ClearState body: delete(sm.states, userID)
ClearState(s, u) ==
  [states |-> [x \in DOMAIN s.states \ {u} |-> s.states[x]], heap |-> s.heap]

\* a cleanup that finds no entry expired
ExpiredNever(s, t) == {}

\* cleanup body, one firing of the ticker
Expired(s, t) ==
  {u \in DOMAIN s.states : t - s.heap[s.states[u]].LastUpdated > ExpiryMinutes}

Sweep(s, t) ==
  [states |-> [x \in DOMAIN s.states \ Expired(s, t) |-> s.states[x]],
   heap |-> s.heap]

Store == [states |-> states, heap |-> heap]

----------------------------------------------------------------------------
(* The StateManager methods as run by concurrent goroutines.  Every method *)
(* first calls GetState (Lock, body, deferred Unlock) and then touches the *)
(* returned *UserState after the lock has been released; ClearState and    *)
(* cleanup work entirely under the lock.                                   *)

NoCall == [op |-> "none", user |-> 0, key |-> "", val |-> ""]
NoResult == [err |-> "", record |-> ""]
\* a goroutine that is not inside handleConfirmCreate
ConfIdle == [at |-> "idle", msg |-> 0, got |-> << >>, res |-> NoResult]
NoRet == [val |-> "", exists |-> FALSE, step |-> StepNone]
\* a caller that is not inside a record operation of the use case
NoUse == [at |-> "idle", op |-> "", input |-> << >>, full |-> "",
          found |-> FALSE, target |-> "", ok |-> TRUE, before |-> 0,
          api |-> 0, loaded |-> TRUE, ttl |-> 0]
NoUc == [call |-> [p \in Procs |-> NoUse], done |-> << >>, ids |-> 0,
         calls |-> 0, name |-> "", zone |-> "", outs |-> << >>]

StoreKeys == {"name"}
StoreVals == {"www"}
StoreSteps == {StepInputRecordName}

StoreCalls ==
  {[op |-> "SetStep", user |-> u, key |-> "", val |-> s] :
      u \in Users, s \in StoreSteps}
  \cup {[op |-> "SetData", user |-> u, key |-> k, val |-> v] :
      u \in Users, k \in StoreKeys, v \in StoreVals}
  \cup {[op |-> "GetData", user |-> u, key |-> k, val |-> ""] :
      u \in Users, k \in StoreKeys}
  \cup {[op |-> o, user |-> u, key |-> "", val |-> ""] :
      o \in {"GetCurrentStep", "ClearState"}, u \in Users}

\* a handler goroutine enters a StateManager method and gets through
\* sm.mu.Lock()
Lock(p, c) ==
  /\ pc[p] = "idle"
  /\ mu = 0
  /\ mu' = p
  /\ pc' = [pc EXCEPT ![p] = "body"]
  /\ call' = [call EXCEPT ![p] = c]
  /\ ret' = [ret EXCEPT ![p] = NoRet]
  /\ UNCHANGED <<states, heap, now, ref, cpc, lastAccess, sweptIdle, cleared>>
  /\ UNCHANGED chatvars

\* GetState: the body and the deferred Unlock
GetStateBody(p) ==
  /\ pc[p] = "body"
  /\ mu = p
  /\ call[p].op # "ClearState"
  /\ LET g == GetState(Store, call[p].user, now)
         rf == [ref EXCEPT ![p] = g.ref]
     IN /\ states' = g.states
        /\ ref' = rf
        /\ heap' = Collect(g.states, g.heap, rf)
  /\ mu' = 0
  /\ pc' = [pc EXCEPT ![p] = "access"]
  /\ lastAccess' = SetKey(lastAccess, call[p].user, now)
  /\ sweptIdle' = [sweptIdle EXCEPT ![call[p].user] = FALSE]
  /\ UNCHANGED <<now, call, ret, cpc, cleared>>
  /\ UNCHANGED chatvars

\* ClearState: the body and the deferred Unlock
ClearStateBody(p) ==
  /\ pc[p] = "body"
  /\ mu = p
  /\ call[p].op = "ClearState"
  /\ LET s == ClearState(Store, call[p].user)
     IN /\ states' = s.states
        /\ heap' = Collect(s.states, s.heap, ref)
  /\ mu' = 0
  /\ pc' = [pc EXCEPT ![p] = "idle"]
  /\ call' = [call EXCEPT ![p] = NoCall]
  /\ lastAccess' = [u \in DOMAIN lastAccess \ {call[p].user} |->
                      lastAccess[u]]
  /\ cleared' = [q \in Procs |->
                   pc[q] = "access" /\ call[q].user = call[p].user]
  /\ UNCHANGED <<now, ref, ret, cpc, sweptIdle>>
  /\ UNCHANGED chatvars

\* the statement after GetState has returned: the field read or write
\* through the returned pointer, then the method returns
AccessHeap(p) ==
  LET o == ref[p] IN
  CASE call[p].op = "SetStep" ->
         [heap EXCEPT ![o].CurrentStep = call[p].val]
    [] call[p].op = "SetData" ->
         [heap EXCEPT ![o].Data = SetKey(@, call[p].key, call[p].val)]
    [] OTHER -> heap

AccessRet(p) ==
  LET o == ref[p] IN
  CASE call[p].op = "GetData" ->
         IF call[p].key \in DOMAIN heap[o].Data
         THEN [ret[p] EXCEPT !.val = heap[o].Data[call[p].key],
                             !.exists = TRUE]
         ELSE [ret[p] EXCEPT !.exists = FALSE]
    [] call[p].op = "GetCurrentStep" ->
         [ret[p] EXCEPT !.step = heap[o].CurrentStep]
    [] OTHER -> ret[p]

Access(p) ==
  /\ pc[p] = "access"
  /\ LET rf == [ref EXCEPT ![p] = NoRef]
     IN /\ ref' = rf
        /\ heap' = Collect(states, AccessHeap(p), rf)
  /\ ret' = [ret EXCEPT ![p] = AccessRet(p)]
  /\ pc' = [pc EXCEPT ![p] = "idle"]
  /\ call' = [call EXCEPT ![p] = NoCall]
  /\ cleared' = [cleared EXCEPT ![p] = FALSE]
  /\ UNCHANGED <<states, now, mu, cpc, lastAccess, sweptIdle>>
  /\ UNCHANGED chatvars

\* cleanup: the ticker has fired and sm.mu.Lock() succeeded
CleanupLock ==
  /\ cpc = "wait"
  /\ mu = 0
  /\ mu' = Cleaner
  /\ cpc' = "body"
  /\ UNCHANGED <<states, heap, now, pc, call, ref, ret,
                 lastAccess, sweptIdle, cleared>>
  /\ UNCHANGED chatvars

\* cleanup: the loop over sm.states, then sm.mu.Unlock()
CleanupSweep ==
  /\ cpc = "body"
  /\ mu = Cleaner
  /\ LET s == Sweep(Store, now)
     IN /\ states' = s.states
        /\ heap' = Collect(s.states, s.heap, ref)
        /\ lastAccess' = [u \in DOMAIN lastAccess \cap DOMAIN s.states |->
                            lastAccess[u]]
  /\ sweptIdle' = [u \in Users |->
                     \/ sweptIdle[u]
                     \/ /\ u \in DOMAIN lastAccess
                        /\ now - lastAccess[u] > ExpiryMinutes]
  /\ mu' = 0
  /\ cpc' = "wait"
  /\ UNCHANGED <<now, pc, call, ref, ret, cleared>>
  /\ UNCHANGED chatvars

\* time passes
Tick ==
  /\ now + TickLen <= MaxClock
  /\ now' = now + TickLen
  /\ UNCHANGED <<states, heap, mu, pc, call, ref, ret, cpc,
                 lastAccess, sweptIdle, cleared>>
  /\ UNCHANGED chatvars

InitStore ==
  /\ states = NoData
  /\ heap = NoData
  /\ now = 0
  /\ mu = 0
  /\ pc = [p \in Procs |-> "idle"]
  /\ call = [p \in Procs |-> NoCall]
  /\ ref = [p \in Procs |-> NoRef]
  /\ ret = [p \in Procs |-> NoRet]
  /\ cpc = "wait"
  /\ lastAccess = NoData
  /\ sweptIdle = [u \in Users |-> FALSE]
  /\ cleared = [p \in Procs |-> FALSE]
  /\ msgs = << >>
  /\ records = << >>
  /\ conf = [p \in Procs |-> ConfIdle]
  /\ creates = 0
  /\ uc = NoUc

NextStore ==
  \/ \E p \in Procs, c \in StoreCalls : Lock(p, c)
  \/ \E p \in Procs : GetStateBody(p)
  \/ \E p \in Procs : ClearStateBody(p)
  \/ \E p \in Procs : Access(p)
  \/ CleanupLock
  \/ CleanupSweep
  \/ Tick

SpecStore == InitStore /\ [][NextStore]_vars

\* the store with the cleanup goroutine and SweepProcs handler goroutines
NextSweep ==
  \/ \E p \in 1..SweepProcs, c \in StoreCalls : Lock(p, c)
  \/ \E p \in 1..SweepProcs : GetStateBody(p)
  \/ \E p \in 1..SweepProcs : ClearStateBody(p)
  \/ \E p \in 1..SweepProcs : Access(p)
  \/ CleanupLock
  \/ CleanupSweep
  \/ Tick

SpecSweep == InitStore /\ [][NextSweep]_vars

----------------------------------------------------------------------------
(* Claims about the conversation store *)

\* C6: every read and every write of conversation state is done holding
\* the store lock: a goroutine that is at the field read or write of
\* SetStep, SetData, GetData or GetCurrentStep holds sm.mu.
C6_AccessHoldsLock ==
  \A p \in Procs : pc[p] = "access" => mu = p

\* a write (SetStep or SetData) of goroutine p returns in this step
WriteReturns(p) ==
  /\ pc[p] = "access"
  /\ pc'[p] = "idle"
  /\ call[p].op \in {"SetStep", "SetData"}

\* after the step, the user's entry holds what call c wrote
HoldsWritten(c) ==
  /\ c.user \in DOMAIN states'
  /\ LET o == heap'[states'[c.user]] IN
       IF c.op = "SetStep"
       THEN o.CurrentStep = c.val
       ELSE c.key \in DOMAIN o.Data /\ o.Data[c.key] = c.val

\* C7: the sweep never loses a write: when a write returns and no
\* ClearState ran since the write looked the state up, the user's entry
\* exists and holds the written value.
C7_SweepKeepsWrite ==
  [][\A p \in Procs :
       (WriteReturns(p) /\ ~cleared[p]) => HoldsWritten(call[p])]_vars

\* the sweep deletes user u's entry in this step
SweepDeletes(u) ==
  /\ cpc = "body"
  /\ cpc' = "wait"
  /\ u \in DOMAIN states
  /\ u \notin DOMAIN states'

LookupReturns(p) == pc[p] = "body" /\ pc'[p] = "access"

\* what the lookup hands back is a fresh state
ReturnsFresh(p) == heap'[ref'[p]] = NewUserState(call[p].user, now)

\* C9 as stated: once a user's conversation has been idle for longer than
\* ExpiryMinutes, the next lookup returns a fresh state.
C9_IdleLookupFresh ==
  [][\A p \in Procs :
       (/\ LookupReturns(p)
        /\ call[p].user \in DOMAIN lastAccess
        /\ now - lastAccess[call[p].user] > ExpiryMinutes)
         => ReturnsFresh(p)]_vars

\* C9 amended: once a user's conversation has been idle for longer than
\* ExpiryMinutes and the sweep has run since, the next lookup returns a
\* fresh state.
C9_SweptLookupFresh ==
  [][\A p \in Procs :
       (LookupReturns(p) /\ sweptIdle[call[p].user]) => ReturnsFresh(p)]_vars

\* a lookup is about to run for a user whose entry the sweep has deleted
\* after more than ExpiryMinutes without a lookup
C9_Witness ==
  \E p \in Procs :
    /\ pc[p] = "body"
    /\ call[p].op # "ClearState"
    /\ sweptIdle[call[p].user]
    /\ call[p].user \notin DOMAIN states

----------------------------------------------------------------------------
(* Strings: what strings.Split, strings.Join, strings.HasSuffix,           *)
(* strconv.Atoi and the fmt verbs compute                                  *)

RECURSIVE IndexOf(_, _, _)
IndexOf(s, c, i) ==
  IF i > Len(s) THEN 0
  ELSE IF SubSeq(s, i, i) = c THEN i ELSE IndexOf(s, c, i + 1)

RECURSIVE Split(_, _)
Split(s, sep) ==
  LET i == IndexOf(s, sep, 1) IN
  IF i = 0 THEN <<s>>
  ELSE <<SubSeq(s, 1, i - 1)>> \o Split(SubSeq(s, i + 1, Len(s)), sep)

RECURSIVE Join(_, _)
Join(parts, sep) ==
  IF Len(parts) = 0 THEN ""
  ELSE IF Len(parts) = 1 THEN parts[1]
  ELSE parts[1] \o sep \o Join(Tail(parts), sep)

HasSuffix(s, suffix) ==
  /\ Len(s) >= Len(suffix)
  /\ SubSeq(s, Len(s) - Len(suffix) + 1, Len(s)) = suffix

DigitChars == <<"0", "1", "2", "3", "4", "5", "6", "7", "8", "9">>

IsDigit(c) == \E d \in DOMAIN DigitChars : DigitChars[d] = c

DigitVal(c) == (CHOOSE d \in DOMAIN DigitChars : DigitChars[d] = c) - 1

RECURSIVE ParseDigits(_, _)
ParseDigits(s, acc) ==
  IF s = "" THEN [val |-> acc, err |-> FALSE]
  ELSE IF ~IsDigit(SubSeq(s, 1, 1)) THEN [val |-> 0, err |-> TRUE]
  ELSE ParseDigits(SubSeq(s, 2, Len(s)), 10 * acc + DigitVal(SubSeq(s, 1, 1)))

\* strconv.Atoi, for values that fit an int
Atoi(s) ==
  LET signed == Len(s) > 0 /\ SubSeq(s, 1, 1) \in {"+", "-"}
      body == IF signed THEN SubSeq(s, 2, Len(s)) ELSE s
      n == ParseDigits(body, 0)
  IN IF body = "" \/ n.err THEN [val |-> 0, err |-> TRUE]
     ELSE IF signed /\ SubSeq(s, 1, 1) = "-"
          THEN [val |-> 0 - n.val, err |-> FALSE]
          ELSE n

\* a value handed to a fmt verb: r is what GetData returned
FmtS(r) == IF r.exists THEN r.val ELSE "%!s(<nil>)"
FmtD(r) == IF r.exists THEN ToString(r.val) ELSE "%!d(<nil>)"
FmtV(r) == IF r.exists THEN ToString(r.val) ELSE "<nil>"

----------------------------------------------------------------------------
(* The chat, the Cloudflare account and the user's inputs *)

MaxMsgs == 4         \* messages the bot sends in all
Reach == 2           \* the user looks at the last Reach messages
MaxRecords == 1      \* DNS records the zone can hold

TheUser == CHOOSE u \in Users : TRUE
Zones == <<"example.com">>         \* what ListZones returns
Texts == {"300"}                   \* free text the user sends
TypeInputs == {"A"}                \* record type buttons the user presses
TTLInputs == {"300"}               \* TTL buttons the user presses
ApiError == "api error"

Btn(t, d) == [text |-> t, data |-> d]
NoKeyboard == {}

\* the handler's view of the program state while it runs
World ==
  [states |-> states, heap |-> heap, msgs |-> msgs, records |-> records,
   calls |-> << >>]

\* the id of the last message sent to the chat, 0 when there is none
LastID(ms) == IF DOMAIN ms = {} THEN 0
              ELSE CHOOSE m \in DOMAIN ms : \A x \in DOMAIN ms : x <= m

\* bot.Send of a new message: it gets the next id, and the user stops
\* looking at all but the last Reach messages
Post(ms, msg) ==
  LET id == LastID(ms) + 1 IN
  [m \in {x \in DOMAIN ms \cup {id} : x > id - Reach} |->
     IF m = id THEN msg ELSE ms[m]]

sendMessage(w, text) ==
  [w EXCEPT !.msgs = Post(@, [text |-> text, kb |-> NoKeyboard])]

sendMessageWithKeyboard(w, text, keyboard) ==
  [w EXCEPT !.msgs = Post(@, [text |-> text, kb |-> keyboard])]

\* editMessageText; without a keyboard the message loses its buttons
editMessage(w, messageID, text, keyboard) ==
  IF messageID \notin DOMAIN w.msgs THEN w
  ELSE [w EXCEPT !.msgs[messageID] = [text |-> text, kb |-> keyboard]]

\* the StateManager methods as one handler goroutine runs them
Touch(w, u) ==
  LET g == GetState(w, u, now) IN
  [w EXCEPT !.states = g.states, !.heap = g.heap]

SetStep(w, u, step) ==
  LET g == GetState(w, u, now) IN
  [w EXCEPT !.states = g.states,
            !.heap = [g.heap EXCEPT ![g.ref].CurrentStep = step]]

SetData(w, u, key, value) ==
  LET g == GetState(w, u, now) IN
  [w EXCEPT !.states = g.states,
            !.heap = [g.heap EXCEPT ![g.ref].Data = SetKey(@, key, value)]]

\* GetData and GetCurrentStep: what they return; their GetState is Touch
GetData(w, u, key) ==
  LET d == IF u \in DOMAIN w.states THEN w.heap[w.states[u]].Data
           ELSE NoData
  IN IF key \in DOMAIN d THEN [val |-> d[key], exists |-> TRUE]
     ELSE [val |-> "", exists |-> FALSE]

GetCurrentStep(w, u) ==
  IF u \in DOMAIN w.states THEN w.heap[w.states[u]].CurrentStep
  ELSE StepNone

Clear(w, u) ==
  LET s == ClearState(w, u) IN
  [w EXCEPT !.states = s.states, !.heap = s.heap]

----------------------------------------------------------------------------
(* domain/dns.go and usecase/dns_usecase.go over the records of the zone.  *)
(* `fail` is the environment's choice that a Cloudflare API call of this   *)
(* use case returns an error.                                              *)

RecordTypes == <<"A", "AAAA", "CNAME", "MX", "TXT", "NS", "SRV", "CAA">>

\* a validation that lets every type through
AnyRecordType(recordType) == TRUE

IsValidRecordType(recordType) ==
  \E i \in DOMAIN RecordTypes : RecordTypes[i] = recordType

ErrInvalidRecord == "invalid dns record"
ErrDuplicateRecord == "dns record already exists"
ErrRecordNotFound == "dns record not found"
NoErr == ""
NoRecord == [ID |-> "", Name |-> "", Type |-> "", Content |-> "",
             TTL |-> 0, Proxied |-> FALSE]

DefaultTTL == 300

\* a qualifying function that appends the zone name to every name but the
\* root's
appendZoneName(recordName, zoneName) ==
  IF recordName = "@" \/ recordName = "" THEN zoneName
  ELSE recordName \o "." \o zoneName

ensureFullRecordName(recordName, zoneName) ==
  IF HasSuffix(recordName, zoneName) THEN recordName
  ELSE IF recordName = "@" \/ recordName = "" THEN zoneName
  ELSE recordName \o "." \o zoneName

IsZone(zoneName) == \E i \in DOMAIN Zones : Zones[i] = zoneName

\* dnsRepo.FindByName: the first record the API lists under that name
\* a lookup that answers a missing record with no record and no error
FindQuiet(recs, name) ==
  LET hits == {i \in DOMAIN recs : recs[i].Name = name} IN
  [record |-> IF hits = {} THEN NoRecord
              ELSE recs[CHOOSE i \in hits : \A j \in hits : i <= j],
   err |-> NoErr]

\* a lookup that finds nothing, whatever the zone holds
FindNothing(recs, name) == [record |-> NoRecord, err |-> ErrRecordNotFound]

FindByName(recs, name) ==
  LET hits == {i \in DOMAIN recs : recs[i].Name = name} IN
  IF hits = {} THEN [record |-> NoRecord, err |-> ErrRecordNotFound]
  ELSE [record |-> recs[CHOOSE i \in hits : \A j \in hits : i <= j],
        err |-> NoErr]

ListRecords(w, zoneName, fail) ==
  IF fail \/ ~IsZone(zoneName)
  THEN [records |-> << >>, err |-> "failed to get zone"]
  ELSE [records |-> w.records, err |-> NoErr]

GetRecord(w, zoneName, recordName, fail) ==
  IF fail \/ ~IsZone(zoneName)
  THEN [record |-> NoRecord, err |-> "failed to get zone"]
  ELSE FindByName(w.records, ensureFullRecordName(recordName, zoneName))

\* CreateRecord; the result carries the world with the call recorded
CreateRecord(w, input, fail) ==
  LET w1 == [w EXCEPT !.calls = Append(@, "create")]
      ttl == IF input.TTL = 0 THEN DefaultTTL ELSE input.TTL
      fullRecordName == ensureFullRecordName(input.Name, input.ZoneName)
      existing == FindByName(w.records, fullRecordName)
      record == [ID |-> "r" \o ToString(Len(w.records) + 1),
                 Name |-> fullRecordName, Type |-> input.Type,
                 Content |-> input.Content, TTL |-> ttl,
                 Proxied |-> input.Proxied]
  IN IF ~IsValidRecordType(input.Type)
     THEN [w |-> w1, record |-> NoRecord, err |-> "invalid dns record"]
     ELSE IF ~IsZone(input.ZoneName)
     THEN [w |-> w1, record |-> NoRecord, err |-> "failed to get zone"]
     ELSE IF existing.err = NoErr
     THEN [w |-> w1, record |-> NoRecord, err |-> ErrDuplicateRecord]
     ELSE IF fail \/ Len(w.records) >= MaxRecords
     THEN [w |-> w1, record |-> NoRecord, err |-> "failed to create record"]
     ELSE [w |-> [w1 EXCEPT !.records = Append(@, record)],
           record |-> record, err |-> NoErr]

\* the proxied flag of a record after cloudflareClient.UpdateDNSRecord: the
\* request carries the flag only when it is true, and the API leaves a
\* field the request does not carry as it is
proxiedAfterUpdate(current, proxied) == IF proxied THEN TRUE ELSE current

UpdateRecord(w, input, fail) ==
  LET w1 == [w EXCEPT !.calls = Append(@, "update")]
      fullRecordName == ensureFullRecordName(input.Name, input.ZoneName)
      existing == FindByName(w.records, fullRecordName)
      record == [ID |-> existing.record.ID,
                 Name |-> fullRecordName, Type |-> input.Type,
                 Content |-> input.Content, TTL |-> input.TTL,
                 Proxied |-> proxiedAfterUpdate(existing.record.Proxied,
                                                input.Proxied)]
  IN IF ~IsValidRecordType(input.Type)
     THEN [w |-> w1, record |-> NoRecord, err |-> "invalid dns record"]
     ELSE IF ~IsZone(input.ZoneName)
     THEN [w |-> w1, record |-> NoRecord, err |-> "failed to get zone"]
     ELSE IF existing.err # NoErr
     THEN [w |-> w1, record |-> NoRecord, err |-> existing.err]
     ELSE IF fail
     THEN [w |-> w1, record |-> NoRecord, err |-> "failed to update record"]
     ELSE [w |-> [w1 EXCEPT !.records =
                    [i \in DOMAIN @ |->
                       IF @[i].ID = existing.record.ID THEN record ELSE @[i]]],
           record |-> record, err |-> NoErr]

\* DeleteRecord of the use case
DeleteRecord(w, zoneName, recordName, fail) ==
  LET w1 == [w EXCEPT !.calls = Append(@, "delete")]
      existing == FindByName(w.records,
                             ensureFullRecordName(recordName, zoneName))
      keep == SelectSeq(w.records, LAMBDA r : r.ID # existing.record.ID)
  IN IF ~IsZone(zoneName) THEN [w |-> w1, err |-> "failed to get zone"]
     ELSE IF existing.err # NoErr THEN [w |-> w1, err |-> existing.err]
     ELSE IF fail THEN [w |-> w1, err |-> "failed to delete dns record"]
     ELSE [w |-> [w1 EXCEPT !.records = keep], err |-> NoErr]

----------------------------------------------------------------------------
(* bot.go (tgbotapi handler): the menus and the create flow.  Texts are    *)
(* the handler's, without emoji and Markdown marks.                        *)

showMainMenu(w) ==
  sendMessageWithKeyboard(w, "Main Menu\n\nWhat would you like to do?",
    {Btn("Manage Records", "manage"), Btn("MCP HTTP Server", "mcphttp")})

TypeButtons ==
  {Btn(RecordTypes[i], "select_type:" \o RecordTypes[i]) :
     i \in DOMAIN RecordTypes}

TTLButtons ==
  {Btn("Auto (1)", "select_ttl:1"), Btn("300", "select_ttl:300"),
   Btn("600", "select_ttl:600"), Btn("1800", "select_ttl:1800"),
   Btn("3600", "select_ttl:3600"), Btn("86400", "select_ttl:86400")}

ProxiedButtons ==
  {Btn("Yes (Proxied)", "proxied:true"), Btn("No (DNS Only)", "proxied:false")}

startCreateRecord(w, u, fail) ==
  IF fail THEN sendMessage(w, "Error: " \o ApiError)
  ELSE IF Len(Zones) = 0 THEN sendMessage(w, "No zones found.")
  ELSE sendMessageWithKeyboard(SetStep(w, u, StepSelectZoneForCreate),
         "Create DNS Record\n\nStep 1/6: Select a zone:",
         {Btn(Zones[i], "select_zone_create:" \o Zones[i]) :
            i \in DOMAIN Zones} \cup {Btn("Cancel", "menu")})

handleZoneSelectedForCreate(w, u, messageID, zoneName) ==
  editMessage(
    SetStep(SetData(w, u, "zone", zoneName), u, StepSelectRecordType),
    messageID,
    "Create DNS Record\n\nZone: " \o zoneName
      \o "\n\nStep 2/6: Select record type:",
    TypeButtons \cup {Btn("Back", "back:create"),
                      Btn("Cancel", "cancel_create")})

startCreateRecordInZone(w, u, messageID, zoneName) ==
  editMessage(
    SetStep(SetData(w, u, "zone", zoneName), u, StepSelectRecordType),
    messageID,
    "Create DNS Record\n\nZone: " \o zoneName
      \o "\n\nStep 2/5: Select record type:",
    TypeButtons \cup {Btn("Back", "refresh:zone:" \o zoneName),
                      Btn("Cancel", "cancel_create")})

handleRecordTypeSelected(w, u, messageID, recordType) ==
  LET w1 == SetStep(SetData(w, u, "type", recordType), u, StepInputRecordName)
      zone == GetData(w1, u, "zone")
      w2 == editMessage(w1, messageID,
              "Create DNS Record\n\nZone: " \o FmtS(zone)
                \o "\nType: " \o recordType
                \o "\n\nStep 3/6: Enter the record name:",
              {Btn("Back", "back:type"), Btn("Cancel", "cancel_create")})
  IN SetData(w2, u, "create_message_id", messageID)

handleInputRecordName(w, u, messageID, name) ==
  LET w1 == SetStep(SetData(w, u, "name", name), u, StepInputRecordContent)
      zone == GetData(w1, u, "zone")
      recordType == GetData(w1, u, "type")
  IN editMessage(w1, messageID,
       "Create DNS Record\n\nZone: " \o FmtS(zone)
         \o "\nType: " \o FmtS(recordType) \o "\nName: " \o name
         \o "\n\nStep 4/6: Enter the content:",
       {Btn("Back", "back:name"), Btn("Cancel", "cancel_create")})

handleInputRecordContent(w, u, messageID, content) ==
  LET w1 == SetStep(SetData(w, u, "content", content), u, StepInputRecordTTL)
      zone == GetData(w1, u, "zone")
      recordType == GetData(w1, u, "type")
      name == GetData(w1, u, "name")
  IN editMessage(w1, messageID,
       "Create DNS Record\n\nZone: " \o FmtS(zone)
         \o "\nType: " \o FmtS(recordType) \o "\nName: " \o FmtS(name)
         \o "\nContent: " \o content \o "\n\nStep 5/6: Select TTL:",
       TTLButtons \cup {Btn("Back", "back:content"),
                        Btn("Cancel", "cancel_create")})

\* the text of the step 6/6 prompt, shared by the button and the text path
ProxiedPromptText(w, u, ttl) ==
  "Create DNS Record\n\nZone: " \o FmtS(GetData(w, u, "zone"))
    \o "\nType: " \o FmtS(GetData(w, u, "type"))
    \o "\nName: " \o FmtS(GetData(w, u, "name"))
    \o "\nContent: " \o FmtS(GetData(w, u, "content"))
    \o "\nTTL: " \o ToString(ttl)
    \o "\n\nStep 6/6: Enable Cloudflare proxy?"

handleTTLSelected(w, u, messageID, ttlStr) ==
  LET ttl == Atoi(ttlStr).val
      w1 == SetStep(SetData(w, u, "ttl", ttl), u, StepInputRecordProxied)
  IN editMessage(w1, messageID, ProxiedPromptText(w1, u, ttl),
       ProxiedButtons \cup {Btn("Back", "back:ttl"),
                            Btn("Cancel", "cancel_create")})

handleInputRecordTTL(w, u, ttlStr) ==
  LET ttl == Atoi(ttlStr) IN
  IF ttl.err THEN sendMessage(w, "Invalid TTL. Please enter a number.")
  ELSE LET w1 == SetStep(SetData(w, u, "ttl", ttl.val), u,
                         StepInputRecordProxied)
       IN sendMessageWithKeyboard(w1, ProxiedPromptText(w1, u, ttl.val),
            ProxiedButtons \cup {Btn("Cancel", "cancel_create")})

handleProxiedSelected(w, u, messageID, proxied) ==
  LET w1 == SetStep(SetData(w, u, "proxied", proxied), u, StepConfirmCreate)
  IN editMessage(w1, messageID,
       "Create DNS Record - Confirm\n\nZone: " \o FmtS(GetData(w1, u, "zone"))
         \o "\nType: " \o FmtS(GetData(w1, u, "type"))
         \o "\nName: " \o FmtS(GetData(w1, u, "name"))
         \o "\nContent: " \o FmtS(GetData(w1, u, "content"))
         \o "\nTTL: " \o FmtV(GetData(w1, u, "ttl"))
         \o "\nProxied: " \o (IF proxied THEN "Yes" ELSE "No")
         \o "\n\nConfirm creation?",
       {Btn("Confirm Create", "confirm_create"),
        Btn("Cancel", "cancel_create")})

\* the fields handleConfirmCreate reads, in the order it reads them
CreateKeyOrder == <<"zone", "type", "name", "content", "ttl", "proxied">>
CreateKeys == Range(CreateKeyOrder)

\* handleConfirmCreate, the CreateRecordInput built from what the six
\* GetData calls returned (got, in the order of CreateKeyOrder)
ConfirmInput(got) ==
  [ZoneName |-> got[1].val, Name |-> got[3].val, Type |-> got[2].val,
   Content |-> got[4].val, TTL |-> got[5].val, Proxied |-> got[6].val]

\* handleConfirmCreate's report as it would be with the generic error text
\* for every error
ConfirmReportGeneric(w, messageID, name, record, err) ==
  IF err # NoErr
  THEN editMessage(w, messageID, "Error creating record: " \o err, NoKeyboard)
  ELSE editMessage(w, messageID,
         "Record Created Successfully!\n\nName: " \o record.Name
           \o "\nType: " \o record.Type
           \o "\nContent: " \o record.Content
           \o "\nTTL: " \o ToString(record.TTL)
           \o "\nProxied: " \o (IF record.Proxied THEN "true" ELSE "false"),
         {Btn("Create Another", "create"), Btn("Main Menu", "menu")})

\* handleConfirmCreate, the editMessage that reports how CreateRecord ended
ConfirmReport(w, messageID, name, record, err) ==
  IF err = ErrDuplicateRecord
  THEN editMessage(w, messageID,
         "Record " \o name \o " already exists. "
           \o "Use Manage Records to update it.", NoKeyboard)
  ELSE IF err # NoErr
  THEN editMessage(w, messageID, "Error creating record: " \o err, NoKeyboard)
  ELSE editMessage(w, messageID,
         "Record Created Successfully!\n\nName: " \o record.Name
           \o "\nType: " \o record.Type
           \o "\nContent: " \o record.Content
           \o "\nTTL: " \o ToString(record.TTL)
           \o "\nProxied: " \o (IF record.Proxied THEN "true" ELSE "false"),
         {Btn("Create Another", "create"), Btn("Main Menu", "menu")})

\* handleConfirmCreate: a missing field makes a type assertion panic; the
\* goroutine's recover ends the handler there
handleConfirmCreate(w, u, messageID, fail) ==
  LET w1 == Touch(w, u)
      got == [i \in DOMAIN CreateKeyOrder |-> GetData(w1, u, CreateKeyOrder[i])]
  IN IF \E i \in DOMAIN got : ~got[i].exists THEN w1
     ELSE LET r == CreateRecord(w1, ConfirmInput(got), fail)
          IN Clear(ConfirmReport(r.w, messageID, got[3].val, r.record, r.err),
                   u)

----------------------------------------------------------------------------
(* bot.go: the record list, the record detail and the edit flow *)

RecordsPerPage == 10

Min(a, b) == IF a < b THEN a ELSE b
Max(a, b) == IF a > b THEN a ELSE b

startManageRecords(w, u, fail) ==
  IF fail THEN sendMessage(w, "Error: " \o ApiError)
  ELSE IF Len(Zones) = 0 THEN sendMessage(w, "No zones found.")
  ELSE sendMessageWithKeyboard(SetStep(w, u, StepSelectZoneForManage),
         "Manage Records\n\nSelect a zone:",
         {Btn(Zones[i], "select_zone_manage:" \o Zones[i]) :
            i \in DOMAIN Zones} \cup {Btn("Back to Menu", "menu")})

CallbackDataMax == 64

\* callbackData of a record row, with the zone name cut when the payload
\* is longer than 64 bytes
viewCallbackData(zoneName, page, idx) ==
  LET tail == ":" \o ToString(page) \o ":" \o ToString(idx)
      whole == "view_rec:" \o zoneName \o tail
      maxZoneLen == CallbackDataMax - Len("view_rec:" \o tail) - 1
  IN IF Len(whole) > CallbackDataMax /\ maxZoneLen > 0
        /\ Len(zoneName) > maxZoneLen
     THEN "view_rec:" \o SubSeq(zoneName, 1, maxZoneLen) \o tail
     ELSE whole

\* prevCallback and nextCallback, cut in the same way
pageCallbackData(zoneName, page) ==
  LET tail == ":" \o ToString(page)
      whole == "page:" \o zoneName \o tail
      maxZoneLen == CallbackDataMax - Len("page:" \o tail) - 1
  IN IF Len(whole) > CallbackDataMax /\ maxZoneLen > 0
        /\ Len(zoneName) > maxZoneLen
     THEN "page:" \o SubSeq(zoneName, 1, maxZoneLen) \o tail
     ELSE whole

\* a page count that rounds down
totalPagesDown(totalRecords) == Max(totalRecords \div RecordsPerPage, 1)

\* totalPages := (totalRecords + recordsPerPage - 1) / recordsPerPage, and
\* 1 if that is less
totalPagesOf(totalRecords) ==
  Max((totalRecords + RecordsPerPage - 1) \div RecordsPerPage, 1)

\* a page number that is only kept from being negative
clampPageBelow(page, totalPages) == Max(page, 0)

\* if page < 0 { page = 0 }; if page >= totalPages { page = totalPages - 1 }
clampPage(page, totalPages) == Min(Max(page, 0), totalPages - 1)

\* a pagination row with both controls on every page
paginationRowBoth(zoneName, pg, totalPages) ==
  {Btn("Prev", pageCallbackData(zoneName, pg - 1)),
   Btn(ToString(pg + 1) \o "/" \o ToString(totalPages), "noop"),
   Btn("Next", pageCallbackData(zoneName, pg + 1))}

\* paginationRow: Prev, the page indicator, Next
paginationRow(zoneName, pg, totalPages) ==
  (IF pg > 0
   THEN {Btn("Prev", pageCallbackData(zoneName, pg - 1))}
   ELSE {})
  \cup {Btn(ToString(pg + 1) \o "/" \o ToString(totalPages), "noop")}
  \cup (IF pg < totalPages - 1
        THEN {Btn("Next", pageCallbackData(zoneName, pg + 1))}
        ELSE {})

refreshZoneRecords(w, u, messageID, zoneName, page, fail) ==
  LET l == ListRecords(w, zoneName, fail)
      totalRecords == Len(l.records)
      totalPages == totalPagesOf(totalRecords)
      pg == clampPage(page, totalPages)
      startIdx == pg * RecordsPerPage
      endIdx == Min(startIdx + RecordsPerPage, totalRecords)
      rows == {Btn(l.records[i + 1].Name \o " (" \o l.records[i + 1].Type \o ")",
                   viewCallbackData(zoneName, pg, i - startIdx)) :
                 i \in startIdx..(endIdx - 1)}
      pagination == paginationRow(zoneName, pg, totalPages)
  IN IF l.err # NoErr THEN sendMessage(w, "Error loading records: " \o l.err)
     ELSE IF totalRecords = 0
     THEN editMessage(w, messageID, "No records found in " \o zoneName \o ".",
            {Btn("Create Record", "create_in_zone:" \o zoneName),
             Btn("Back", "manage")})
     ELSE editMessage(w, messageID,
            "Records in " \o zoneName \o "\nPage " \o ToString(pg + 1) \o "/"
              \o ToString(totalPages) \o " (" \o ToString(totalRecords)
              \o " records)\n\nClick a record to view details:\n",
            rows \cup pagination
              \cup {Btn("Refresh", "refresh:zone:" \o zoneName),
                    Btn("Create", "create_in_zone:" \o zoneName),
                    Btn("Back", "manage"), Btn("Menu", "menu")})

handleZoneSelectedForManage(w, u, messageID, zoneName, fail) ==
  refreshZoneRecords(w, u, messageID, zoneName, 0, fail)

\* an index that forgets the page
indexOnPage(page, index) == index

\* actualIndex := page*recordsPerPage + index
indexInList(page, index) == page * RecordsPerPage + index

showRecordDetailByIndex(w, u, messageID, zoneName, page, index, fail) ==
  LET l == ListRecords(w, zoneName, fail)
      actualIndex == indexInList(page, index)
  IN IF l.err # NoErr
     THEN editMessage(w, messageID, "Error loading records: " \o l.err,
                      NoKeyboard)
     ELSE IF actualIndex < 0 \/ actualIndex >= Len(l.records)
     THEN editMessage(w, messageID, "Record not found.", NoKeyboard)
     ELSE LET record == l.records[actualIndex + 1] IN
          editMessage(w, messageID,
            "Record Details\n\nZone: " \o zoneName
              \o "\nName: " \o record.Name \o "\nType: " \o record.Type
              \o "\nContent: " \o record.Content
              \o "\nTTL: " \o ToString(record.TTL)
              \o "\nProxied: " \o (IF record.Proxied THEN "Yes" ELSE "No")
              \o "\n",
            {Btn("Edit", "edit_record:" \o zoneName \o ":" \o record.Name),
             Btn("Delete", "delete_record:" \o zoneName \o ":" \o record.Name),
             Btn("Back to List", "refresh:zone:" \o zoneName),
             Btn("Menu", "menu")})

EditMenuButtons(zoneName) ==
  {Btn("Edit Content", "edit_content"), Btn("Edit TTL", "edit_ttl"),
   Btn("Toggle Proxy", "edit_proxied"),
   Btn("Back", "refresh:zone:" \o zoneName)}

EditMenuText(name, type, content, ttl, proxied, tail) ==
  "Edit Record\n\nName: " \o name \o "\nType: " \o type
    \o "\nContent: " \o content \o "\nTTL: " \o ttl
    \o "\nProxied: " \o proxied \o "\n\n" \o tail

startEditRecord(w, u, messageID, zoneName, recordName, fail) ==
  LET g == GetRecord(w, zoneName, recordName, fail)
      record == g.record
      w1 == SetData(SetData(SetData(SetData(SetData(SetData(SetData(w,
              u, "edit_zone", zoneName),
              u, "edit_record_name", recordName),
              u, "edit_record_id", record.ID),
              u, "edit_type", record.Type),
              u, "edit_current_content", record.Content),
              u, "edit_current_ttl", record.TTL),
              u, "edit_current_proxied", record.Proxied)
  IN IF g.err # NoErr
     THEN editMessage(w, messageID, "Error: " \o g.err, NoKeyboard)
     ELSE editMessage(w1, messageID,
            EditMenuText(record.Name, record.Type, record.Content,
              ToString(record.TTL), IF record.Proxied THEN "Yes" ELSE "No",
              "What would you like to edit?"),
            EditMenuButtons(zoneName))

\* currentProxied.(bool) panics when the field is missing
handleBackToEdit(w, u, messageID) ==
  LET w1 == Touch(w, u)
      currentProxied == GetData(w1, u, "edit_current_proxied")
  IN IF ~currentProxied.exists THEN w1
     ELSE editMessage(w1, messageID,
            EditMenuText(FmtS(GetData(w1, u, "edit_record_name")),
              FmtS(GetData(w1, u, "edit_type")),
              FmtS(GetData(w1, u, "edit_current_content")),
              FmtD(GetData(w1, u, "edit_current_ttl")),
              IF currentProxied.val THEN "Yes" ELSE "No",
              "What would you like to edit?"),
            EditMenuButtons(FmtS(GetData(w1, u, "edit_zone"))))

startEditContent(w, u, messageID) ==
  LET w1 == SetData(SetStep(w, u, StepEditRecordContent),
                    u, "edit_message_id", messageID)
  IN editMessage(w1, messageID,
       "Edit Content\n\nZone: " \o FmtS(GetData(w1, u, "edit_zone"))
         \o "\nRecord: " \o FmtS(GetData(w1, u, "edit_record_name"))
         \o "\nCurrent content: "
         \o FmtS(GetData(w1, u, "edit_current_content"))
         \o "\n\nEnter the new content:",
       {Btn("Back", "back_to_edit"), Btn("Cancel", "menu")})

startEditTTL(w, u, messageID) ==
  LET w1 == SetData(SetStep(w, u, StepEditRecordTTL),
                    u, "edit_message_id", messageID)
  IN editMessage(w1, messageID,
       "Edit TTL\n\nZone: " \o FmtS(GetData(w1, u, "edit_zone"))
         \o "\nRecord: " \o FmtS(GetData(w1, u, "edit_record_name"))
         \o "\nCurrent TTL: " \o FmtV(GetData(w1, u, "edit_current_ttl"))
         \o "\n\nSelect new TTL:",
       TTLButtons \cup {Btn("Back", "back_to_edit"), Btn("Cancel", "menu")})

EditKeys == {"edit_zone", "edit_record_name", "edit_record_id", "edit_type",
             "edit_current_content", "edit_current_ttl",
             "edit_current_proxied"}

\* the UpdateRecordInput the edit handlers build from the cached fields,
\* with one field replaced by the new value
EditInput(w, u, field, value) ==
  LET base == [ZoneName |-> GetData(w, u, "edit_zone").val,
               RecordID |-> GetData(w, u, "edit_record_id").val,
               Name |-> GetData(w, u, "edit_record_name").val,
               Type |-> GetData(w, u, "edit_type").val,
               Content |-> GetData(w, u, "edit_current_content").val,
               TTL |-> GetData(w, u, "edit_current_ttl").val,
               Proxied |-> GetData(w, u, "edit_current_proxied").val]
  IN [base EXCEPT ![field] = value]

\* what the three handlers do once their input is built
ApplyEdit(w, u, messageID, input, key, value, tail, fail) ==
  LET r == UpdateRecord(w, input, fail) IN
  IF r.err # NoErr
  THEN editMessage(r.w, messageID, "Error updating record: " \o r.err,
                   NoKeyboard)
  ELSE Clear(editMessage(SetData(r.w, u, key, value), messageID,
         EditMenuText(input.Name, input.Type, input.Content,
           ToString(input.TTL), IF input.Proxied THEN "Yes" ELSE "No", tail),
         EditMenuButtons(input.ZoneName)), u)

handleToggleProxied(w, u, messageID, fail) ==
  LET w1 == Touch(w, u) IN
  IF \E k \in EditKeys : ~GetData(w1, u, k).exists THEN w1
  ELSE LET newProxied == ~GetData(w1, u, "edit_current_proxied").val IN
       ApplyEdit(w1, u, messageID, EditInput(w1, u, "Proxied", newProxied),
         "edit_current_proxied", newProxied, "Proxy status updated!", fail)

handleEditRecordContent(w, u, messageID, content, fail) ==
  LET w1 == Touch(w, u) IN
  IF \E k \in EditKeys \ {"edit_current_content"} : ~GetData(w1, u, k).exists
  THEN w1
  ELSE ApplyEdit(w1, u, messageID, EditInput(w1, u, "Content", content),
         "edit_current_content", content, "Content updated!", fail)

handleEditRecordTTL(w, u, messageID, ttlStr, fail) ==
  LET ttl == Atoi(ttlStr)
      w1 == Touch(w, u)
  IN IF ttl.err THEN editMessage(w, messageID, "Invalid TTL value", NoKeyboard)
     ELSE IF \E k \in EditKeys \ {"edit_current_ttl"} :
               ~GetData(w1, u, k).exists
     THEN w1
     ELSE ApplyEdit(w1, u, messageID, EditInput(w1, u, "TTL", ttl.val),
            "edit_current_ttl", ttl.val, "TTL updated!", fail)

handleBack(w, u, messageID, parts, fail) ==
  IF Len(parts) < 2 THEN showMainMenu(w)
  ELSE LET w1 == Touch(w, u)
           zone == GetData(w1, u, "zone")
           recordType == GetData(w1, u, "type")
           name == GetData(w1, u, "name")
       IN CASE parts[2] = "create" -> startCreateRecord(w, u, fail)
            [] parts[2] = "type" -> startCreateRecord(w, u, fail)
            [] parts[2] = "name" ->
                 editMessage(SetStep(w1, u, StepSelectRecordType), messageID,
                   "Create DNS Record\n\nZone: " \o FmtS(zone)
                     \o "\n\nStep 2/6: Select record type:",
                   TypeButtons \cup {Btn("Back", "back:create"),
                                     Btn("Cancel", "cancel_create")})
            [] parts[2] = "content" ->
                 editMessage(SetStep(w1, u, StepInputRecordName), messageID,
                   "Create DNS Record\n\nZone: " \o FmtS(zone)
                     \o "\nType: " \o FmtS(recordType)
                     \o "\n\nStep 3/6: Enter the record name:",
                   {Btn("Back", "back:type"), Btn("Cancel", "cancel_create")})
            [] parts[2] = "ttl" ->
                 editMessage(SetStep(w1, u, StepInputRecordContent), messageID,
                   "Create DNS Record\n\nZone: " \o FmtS(zone)
                     \o "\nType: " \o FmtS(recordType)
                     \o "\nName: " \o FmtS(name)
                     \o "\n\nStep 4/6: Enter the content:",
                   {Btn("Back", "back:name"), Btn("Cancel", "cancel_create")})
            [] OTHER -> showMainMenu(w)

\* handleMessage for a text that is not the /start command
handleMessage(w, u, text, fail) ==
  LET w1 == Touch(w, u)
      step == GetCurrentStep(w1, u)
      createID == GetData(w1, u, "create_message_id")
      editID == GetData(w1, u, "edit_message_id")
  IN CASE step = StepInputRecordName ->
            IF createID.exists
            THEN handleInputRecordName(w1, u, createID.val, text) ELSE w1
       [] step = StepInputRecordContent ->
            IF createID.exists
            THEN handleInputRecordContent(w1, u, createID.val, text) ELSE w1
       [] step = StepInputRecordTTL -> handleInputRecordTTL(w1, u, text)
       [] step = StepEditRecordContent ->
            IF editID.exists
            THEN handleEditRecordContent(w1, u, editID.val, text, fail) ELSE w1
       [] step = StepEditRecordTTL ->
            IF editID.exists
            THEN handleEditRecordTTL(w1, u, editID.val, text, fail) ELSE w1
       [] OTHER -> showMainMenu(w1)

startDeleteRecord(w, messageID, zoneName, recordName) ==
  editMessage(w, messageID,
    "Delete Record\n\nAre you sure you want to delete:\n" \o recordName
      \o " in zone " \o zoneName \o "?",
    {Btn("Yes, Delete",
         "confirm_delete:" \o zoneName \o ":" \o recordName),
     Btn("Cancel", "cancel_delete:" \o zoneName)})

handleConfirmDelete(w, messageID, zoneName, recordName, fail) ==
  LET d == DeleteRecord(w, zoneName, recordName, fail) IN
  IF d.err = ErrRecordNotFound
  THEN editMessage(d.w, messageID, "Record " \o recordName \o " not found.",
                   NoKeyboard)
  ELSE IF d.err # NoErr
  THEN editMessage(d.w, messageID, "Error deleting record: " \o d.err,
                   NoKeyboard)
  ELSE editMessage(d.w, messageID,
         "Record " \o recordName \o " deleted successfully!",
         {Btn("Back to Records", "select_zone_manage:" \o zoneName),
          Btn("Main Menu", "menu")})

\* handleCallback: the payloads of the menus, the record list, the two
\* wizards and the delete flow.  The payloads of the other flows (API keys,
\* MCP server, access requests) are not followed here: a press of one of
\* them changes nothing here.
handleCallback(w, u, messageID, data, fail) ==
  LET parts == Split(data, ":")
      action == parts[1]
      n == Len(parts)
  IN CASE action = "menu" -> showMainMenu(w)
       [] action = "create" -> startCreateRecord(w, u, fail)
       [] action = "create_in_zone" /\ n > 1 ->
            startCreateRecordInZone(w, u, messageID, Join(Tail(parts), ":"))
       [] action = "manage" -> startManageRecords(w, u, fail)
       [] action = "select_zone_create" /\ n > 1 ->
            handleZoneSelectedForCreate(w, u, messageID, parts[2])
       [] action = "select_zone_manage" /\ n > 1 ->
            handleZoneSelectedForManage(w, u, messageID,
              Join(Tail(parts), ":"), fail)
       [] action = "select_type" /\ n > 1 ->
            handleRecordTypeSelected(w, u, messageID, parts[2])
       [] action = "select_ttl" /\ n > 1 ->
            handleTTLSelected(w, u, messageID, parts[2])
       [] action = "proxied" /\ n > 1 ->
            handleProxiedSelected(w, u, messageID, parts[2] = "true")
       [] action = "confirm_create" ->
            handleConfirmCreate(w, u, messageID, fail)
       [] action = "cancel_create" -> showMainMenu(Clear(w, u))
       [] action = "view_rec" /\ n >= 4 ->
            showRecordDetailByIndex(w, u, messageID,
              Join(SubSeq(parts, 2, n - 2), ":"),
              Atoi(parts[n - 1]).val, Atoi(parts[n]).val, fail)
       [] action = "edit_record" /\ n > 2 ->
            startEditRecord(w, u, messageID, parts[2], parts[3], fail)
       [] action = "delete_record" /\ n > 2 ->
            startDeleteRecord(w, messageID, parts[2], parts[3])
       [] action = "confirm_delete" /\ n > 2 ->
            handleConfirmDelete(w, messageID, parts[2], parts[3], fail)
       [] action = "cancel_delete" /\ n > 1 ->
            refreshZoneRecords(w, u, messageID, parts[2], 0, fail)
       [] action = "back" -> handleBack(w, u, messageID, parts, fail)
       [] action = "refresh" /\ n > 2 /\ parts[2] = "zone" ->
            refreshZoneRecords(w, u, messageID, parts[3], 0, fail)
       [] action = "page" /\ n >= 3 ->
            refreshZoneRecords(w, u, messageID,
              Join(SubSeq(parts, 2, n - 1), ":"), Atoi(parts[n]).val, fail)
       [] action = "edit_content" -> startEditContent(w, u, messageID)
       [] action = "edit_ttl" -> startEditTTL(w, u, messageID)
       [] action = "edit_proxied" -> handleToggleProxied(w, u, messageID, fail)
       [] action = "back_to_edit" -> handleBackToEdit(w, u, messageID)
       [] OTHER -> w

----------------------------------------------------------------------------
(* The updates of one user, each handled to completion before the next *)

\* the handler's result becomes the program state
Commit(w) ==
  /\ LastID(w.msgs) <= MaxMsgs
  /\ states' = w.states
  /\ heap' = Collect(w.states, w.heap, ref)
  /\ msgs' = w.msgs
  /\ records' = w.records
  /\ UNCHANGED <<procvars, conf, creates>>

\* the buttons the user presses: of the type and TTL keyboards only the
\* values in TypeInputs and TTLInputs
ActionIs(b, action) ==
  \/ b.data = action
  \/ /\ Len(b.data) > Len(action)
     /\ SubSeq(b.data, 1, Len(action) + 1) = action \o ":"

Pressed(b) ==
  /\ ActionIs(b, "select_type") => Split(b.data, ":")[2] \in TypeInputs
  /\ ActionIs(b, "select_ttl") => Split(b.data, ":")[2] \in TTLInputs

\* the user presses button b of message m
Press(m, b, fail) ==
  /\ m \in DOMAIN msgs
  /\ b \in msgs[m].kb
  /\ Pressed(b)
  /\ Commit(handleCallback(World, TheUser, m, b.data, fail))

PressAction(action) ==
  \E m \in DOMAIN msgs :
    \E b \in {x \in msgs[m].kb : ActionIs(x, action)} :
      \E fail \in BOOLEAN : Press(m, b, fail)

StartCommand == Commit(showMainMenu(World))

\* the user sends a text
Text(text, fail) == Commit(handleMessage(World, TheUser, text, fail))

TextMessage == \E text \in Texts, fail \in BOOLEAN : Text(text, fail)

Menu == PressAction("menu")
Manage == PressAction("manage")
SelectZoneManage == PressAction("select_zone_manage")
Refresh == PressAction("refresh")
ViewRec == PressAction("view_rec")
Create == PressAction("create")
CreateInZone == PressAction("create_in_zone")
SelectZoneCreate == PressAction("select_zone_create")
SelectType == PressAction("select_type")
SelectTTL == PressAction("select_ttl")
Proxied == PressAction("proxied")
ConfirmCreate == PressAction("confirm_create")
CancelCreate == PressAction("cancel_create")
Back == PressAction("back")
EditRecord == PressAction("edit_record")
EditContent == PressAction("edit_content")
EditTTL == PressAction("edit_ttl")
EditProxied == PressAction("edit_proxied")
BackToEdit == PressAction("back_to_edit")

Init == InitStore

Next ==
  \/ StartCommand
  \/ TextMessage
  \/ Menu
  \/ Manage
  \/ SelectZoneManage
  \/ Refresh
  \/ ViewRec
  \/ Create
  \/ CreateInZone
  \/ SelectZoneCreate
  \/ SelectType
  \/ SelectTTL
  \/ Proxied
  \/ ConfirmCreate
  \/ CancelCreate
  \/ Back
  \/ EditRecord
  \/ EditContent
  \/ EditTTL
  \/ EditProxied
  \/ BackToEdit

Spec == Init /\ [][Next]_vars
----------------------------------------------------------------------------
(* handleConfirmCreate run by concurrent goroutines: Start gives every     *)
(* update a goroutine of its own, so a second press of Confirm Create is   *)
(* handled while the first is still under way.  The goroutines are stepped *)
(* from one StateManager or API call to the next.                          *)

NoWorld ==
  [states |-> NoData, heap |-> NoData, msgs |-> << >>, records |-> << >>,
   calls |-> << >>]

\* the program when the user, having gone from /start through the record
\* list and the create flow, is at the SelectProxied prompt: zone, type,
\* name, content and TTL are stored and the second message shows the
\* prompt
ProxiedWorld ==
  LET u == TheUser
      text == CHOOSE t \in Texts : TRUE
      ttl == Atoi(CHOOSE t \in TTLInputs : TRUE).val
      data == [k \in {"zone", "type", "name", "content", "ttl",
                      "create_message_id"}
                 |-> CASE k = "zone" -> Zones[1]
                       [] k = "type" -> CHOOSE t \in TypeInputs : TRUE
                       [] k = "ttl" -> ttl
                       [] k = "create_message_id" -> 2
                       [] OTHER -> text]
      o == NewObj(NoData)
      w == [NoWorld EXCEPT
              !.states = [x \in {u} |-> o],
              !.heap = [x \in {o} |->
                          [UserID |-> u, CurrentStep |-> StepInputRecordProxied,
                           Data |-> data, LastUpdated |-> 0]]]
  IN sendMessageWithKeyboard(showMainMenu(w), ProxiedPromptText(w, u, ttl),
       ProxiedButtons \cup {Btn("Back", "back:ttl"),
                            Btn("Cancel", "cancel_create")})

\* the program once the user has pressed DNS Only there: the Confirm prompt
ConfirmWorld ==
  handleProxiedSelected(ProxiedWorld, TheUser, LastID(ProxiedWorld.msgs),
                        FALSE)

\* the callback of a Confirm Create button reaches goroutine p
ConfirmStart(p) ==
  /\ conf[p].at = "idle"
  /\ \E m \in DOMAIN msgs :
       /\ \E b \in msgs[m].kb : ActionIs(b, "confirm_create")
       /\ conf' = [conf EXCEPT ![p] = [ConfIdle EXCEPT !.at = "read",
                                                       !.msg = m]]
  /\ UNCHANGED <<states, heap, msgs, records, creates>>
  /\ UNCHANGED procvars

\* the next of the six GetData calls
ConfirmRead(p) ==
  /\ conf[p].at = "read"
  /\ LET key == CreateKeyOrder[Len(conf[p].got) + 1]
         w == Touch(World, TheUser)
         got == Append(conf[p].got, GetData(w, TheUser, key))
     IN /\ states' = w.states
        /\ heap' = Collect(w.states, w.heap, ref)
        /\ conf' = [conf EXCEPT ![p] =
                      [@ EXCEPT !.got = got,
                                !.at = IF Len(got) = Len(CreateKeyOrder)
                                       THEN "call" ELSE "read"]]
  /\ UNCHANGED <<msgs, records, creates>>
  /\ UNCHANGED procvars

\* the type assertions, which panic on a missing field (the recover in
\* Start ends the goroutine), then the CreateRecord call
ConfirmCall(p) ==
  /\ conf[p].at = "call"
  /\ IF \E i \in DOMAIN conf[p].got : ~conf[p].got[i].exists
     THEN /\ conf' = [conf EXCEPT ![p] = ConfIdle]
          /\ UNCHANGED <<records, creates>>
     ELSE \E fail \in BOOLEAN :
            LET r == CreateRecord(World, ConfirmInput(conf[p].got), fail) IN
            /\ records' = r.w.records
            /\ creates' = creates + Len(r.w.calls)
            /\ conf' = [conf EXCEPT ![p] =
                          [@ EXCEPT !.at = "reply",
                                    !.res = [err |-> r.err,
                                             record |-> r.record]]]
  /\ UNCHANGED <<states, heap, msgs>>
  /\ UNCHANGED procvars

\* the editMessage that reports the result
ConfirmReply(p) ==
  /\ conf[p].at = "reply"
  /\ msgs' = ConfirmReport(World, conf[p].msg, conf[p].got[3].val,
                           conf[p].res.record, conf[p].res.err).msgs
  /\ conf' = [conf EXCEPT ![p].at = "clear"]
  /\ UNCHANGED <<states, heap, records, creates>>
  /\ UNCHANGED procvars

\* the ClearState that ends the handler
ConfirmClear(p) ==
  /\ conf[p].at = "clear"
  /\ LET w == Clear(World, TheUser)
     IN /\ states' = w.states
        /\ heap' = Collect(w.states, w.heap, ref)
  /\ conf' = [conf EXCEPT ![p] = ConfIdle]
  /\ UNCHANGED <<msgs, records, creates>>
  /\ UNCHANGED procvars

InitConc ==
  /\ now = 0
  /\ mu = 0
  /\ pc = [p \in Procs |-> "idle"]
  /\ call = [p \in Procs |-> NoCall]
  /\ ref = [p \in Procs |-> NoRef]
  /\ ret = [p \in Procs |-> NoRet]
  /\ cpc = "wait"
  /\ lastAccess = NoData
  /\ sweptIdle = [u \in Users |-> FALSE]
  /\ cleared = [p \in Procs |-> FALSE]
  /\ states = ConfirmWorld.states
  /\ heap = ConfirmWorld.heap
  /\ msgs = ConfirmWorld.msgs
  /\ records = ConfirmWorld.records
  /\ conf = [p \in Procs |-> ConfIdle]
  /\ creates = 0
  /\ uc = NoUc

NextConc ==
  \/ \E p \in Procs : ConfirmStart(p)
  \/ \E p \in Procs : ConfirmRead(p)
  \/ \E p \in Procs : ConfirmCall(p)
  \/ \E p \in Procs : ConfirmReply(p)
  \/ \E p \in Procs : ConfirmClear(p)

SpecConc == InitConc /\ [][NextConc]_vars

\* C5: in one run of the create wizard that has reached the Confirm
\* prompt, at most one CreateRecord call is made, however the presses of
\* Confirm Create are handled.
C5_OneCreatePerRun == creates <= 1

----------------------------------------------------------------------------
(* Claims about the wizard *)

\* the program state after the step, as a handler would see it
NextWorld ==
  [states |-> states', heap |-> heap', msgs |-> msgs', records |-> records',
   calls |-> << >>]

\* the create flow in the order of its steps
CreateChain ==
  <<StepSelectZoneForCreate, StepSelectRecordType, StepInputRecordName,
    StepInputRecordContent, StepInputRecordTTL, StepInputRecordProxied,
    StepConfirmCreate>>

\* the place of a step in the create flow: 0 for None, -1 for a step of
\* another flow
ChainNo(step) ==
  IF step = StepNone THEN 0
  ELSE IF \E i \in DOMAIN CreateChain : CreateChain[i] = step
  THEN CHOOSE i \in DOMAIN CreateChain : CreateChain[i] = step
  ELSE -1

\* the steps in which a wizard waits for the user
WizardSteps ==
  {CreateChain[i] : i \in DOMAIN CreateChain}
    \cup {StepEditRecordContent, StepEditRecordTTL}

\* the fields a step of the create flow has collected when it is entered
FieldsAt(step) ==
  CASE step = StepSelectZoneForCreate -> {}
    [] step = StepSelectRecordType -> {"zone"}
    [] step = StepInputRecordName -> {"zone", "type"}
    [] step = StepInputRecordContent -> {"zone", "type", "name"}
    [] step = StepInputRecordTTL -> {"zone", "type", "name", "content"}
    [] step = StepInputRecordProxied ->
         {"zone", "type", "name", "content", "ttl"}
    [] step = StepConfirmCreate -> CreateKeys

HasFields(w, step) ==
  \A k \in FieldsAt(step) : GetData(w, TheUser, k).exists

\* the prompt of a step as its forward handler renders it in message m
\* from the fields stored in w
Prompt(w, step, m) ==
  LET u == TheUser
      r == CASE step = StepSelectRecordType ->
                  handleZoneSelectedForCreate(w, u, m,
                    GetData(w, u, "zone").val)
             [] step = StepInputRecordName ->
                  handleRecordTypeSelected(w, u, m, GetData(w, u, "type").val)
             [] step = StepInputRecordContent ->
                  handleInputRecordName(w, u, m, GetData(w, u, "name").val)
             [] step = StepInputRecordTTL ->
                  handleInputRecordContent(w, u, m,
                    GetData(w, u, "content").val)
             [] step = StepInputRecordProxied ->
                  handleTTLSelected(w, u, m,
                    ToString(GetData(w, u, "ttl").val))
             [] step = StepConfirmCreate ->
                  handleProxiedSelected(w, u, m, GetData(w, u, "proxied").val)
  IN r.msgs[m]

\* the step 1 prompt, which startCreateRecord posts as a new message
ZonePrompt(w) ==
  LET ms == startCreateRecord(w, TheUser, FALSE).msgs IN ms[LastID(ms)]

\* message m shows the prompt of the step the user is in
ShowsPrompt(m) ==
  LET step == GetCurrentStep(World, TheUser) IN
  /\ ChainNo(step) >= 1
  /\ HasFields(World, step)
  /\ IF ChainNo(step) = 1 THEN msgs[m] = ZonePrompt(World)
     ELSE msgs[m] = Prompt(World, step, m)

\* after the step the chat shows the prompt of `step`, built from the
\* fields stored after the step
Rendered(step) ==
  /\ HasFields(NextWorld, step)
  /\ \E m \in DOMAIN msgs' :
       IF ChainNo(step) = 1 THEN msgs'[m] = ZonePrompt(NextWorld)
       ELSE msgs'[m] = Prompt(NextWorld, step, m)

\* the stored value of every field in keys is what it was before the step
FieldsKept(keys) ==
  \A k \in keys : GetData(NextWorld, TheUser, k) = GetData(World, TheUser, k)

\* C1: in every step of the create flow and of the edit flow, pressing a
\* button labelled Cancel deletes the user's conversation state and posts
\* the top-level menu.
C1_CancelClearsState ==
  [][\A m \in DOMAIN msgs : \A b \in msgs[m].kb : \A fail \in BOOLEAN :
       (/\ b.text = "Cancel"
        /\ GetCurrentStep(World, TheUser) \in WizardSteps
        /\ Press(m, b, fail))
       => /\ TheUser \notin DOMAIN states'
          /\ msgs' = showMainMenu(World).msgs]_vars

\* C2: in the create flow, pressing Back in the prompt of step k (k from
\* SelectType to SelectProxied, the steps whose prompt has a Back button)
\* makes step k-1 the current step and shows the prompt of step k-1 built
\* from the stored fields.
C2_BackOneStep ==
  [][\A m \in DOMAIN msgs : \A b \in msgs[m].kb :
       (/\ b.text = "Back"
        /\ ShowsPrompt(m)
        /\ Press(m, b, FALSE))
       => LET k == ChainNo(GetCurrentStep(World, TheUser)) IN
          /\ GetCurrentStep(NextWorld, TheUser) = CreateChain[k - 1]
          /\ Rendered(CreateChain[k - 1])]_vars

\* C3: once the create flow has been driven forward to its last prompt
\* with a Back button (SelectProxied, with zone, type, name, content and
\* TTL stored), one Back shows the prompt before it (SelectTTL) with the
\* stored values, and every stored field keeps its value.
C3_BackKeepsFields ==
  [][\A m \in DOMAIN msgs : \A b \in msgs[m].kb :
       (/\ b.text = "Back"
        /\ GetCurrentStep(World, TheUser) = StepInputRecordProxied
        /\ ShowsPrompt(m)
        /\ Press(m, b, FALSE))
       => /\ msgs'[m] = Prompt(World, StepInputRecordTTL, m)
          /\ FieldsKept(FieldsAt(StepInputRecordProxied))]_vars

\* C4: whatever the user does (a text, or any button of any message on
\* screen), a forward move of currentStep along the create flow goes to
\* the direct successor of the current step.
C4_OneStepForward ==
  [][LET i == ChainNo(GetCurrentStep(World, TheUser))
         j == ChainNo(GetCurrentStep(NextWorld, TheUser))
     IN (i >= 0 /\ j > i) => j = i + 1]_vars

\* C10: when a handler has made the create or update call (whether it
\* succeeded or failed), and when the user presses Cancel in a wizard
\* step, the user's conversation state is deleted.
C10_TerminalDeletesState ==
  [][/\ \A m \in DOMAIN msgs : \A b \in msgs[m].kb : \A fail \in BOOLEAN :
          (/\ Press(m, b, fail)
           /\ \/ handleCallback(World, TheUser, m, b.data, fail).calls # << >>
              \/ /\ b.text = "Cancel"
                 /\ GetCurrentStep(World, TheUser) \in WizardSteps)
          => TheUser \notin DOMAIN states'
     /\ \A text \in Texts : \A fail \in BOOLEAN :
          (/\ Text(text, fail)
           /\ handleMessage(World, TheUser, text, fail).calls # << >>)
          => TheUser \notin DOMAIN states']_vars
----------------------------------------------------------------------------
(* The bot among the other inputs that reach it: callback queries whose    *)
(* data no button of the message carries (the Bot API passes the client's  *)
(* data on unchecked), texts that are not numbers, and the MCP server      *)
(* (cmd/mcp-server/main.go) changing the same zone through the same use    *)
(* case while the user has a record open for editing.                      *)

BadNumbers == {"abc"}      \* what the user supplies where a TTL is expected

TTLSteps == {StepInputRecordTTL, StepEditRecordTTL}

\* a callback query with a select_ttl payload of the client's own making
RawSelectTTL ==
  /\ GetCurrentStep(World, TheUser) \in TTLSteps
  /\ \E m \in DOMAIN msgs, v \in BadNumbers :
       Commit(handleCallback(World, TheUser, m, "select_ttl:" \o v, FALSE))

\* a text that is not a number, sent where a TTL is expected
BadTTLText ==
  /\ GetCurrentStep(World, TheUser) \in TTLSteps
  /\ \E text \in BadNumbers : Text(text, FALSE)

\* the MCP server's update_record tool, called by its own client to
\* write another content while the user has a record open in the edit menu
McpUpdateRecord ==
  /\ GetData(World, TheUser, "edit_record_id").exists
  /\ \E i \in DOMAIN records :
       LET r == records[i]
           res == UpdateRecord(World,
                    [ZoneName |-> Zones[1], Name |-> r.Name, Type |-> r.Type,
                     Content |-> "9", TTL |-> r.TTL,
                     Proxied |-> r.Proxied], FALSE)
       IN /\ r.Content # "9"
          /\ records' = res.w.records
  /\ UNCHANGED <<states, heap, msgs, conf, creates>>
  /\ UNCHANGED procvars

\* the MCP server's delete_record tool, called by its own client
McpDeleteRecord ==
  /\ GetData(World, TheUser, "edit_record_id").exists
  /\ \E i \in DOMAIN records :
       records' = DeleteRecord(World, Zones[1], records[i].Name, FALSE).w.records
  /\ UNCHANGED <<states, heap, msgs, conf, creates>>
  /\ UNCHANGED procvars

\* the program when the zone holds the record a run of the create flow
\* leaves and the user, coming from /start and Manage Records, looks at the
\* record list of the zone
ListWorld ==
  LET u == TheUser
      text == CHOOSE t \in Texts : TRUE
      record == [ID |-> "r1",
                 Name |-> ensureFullRecordName(text, Zones[1]),
                 Type |-> CHOOSE t \in TypeInputs : TRUE, Content |-> text,
                 TTL |-> Atoi(CHOOSE t \in TTLInputs : TRUE).val,
                 Proxied |-> FALSE]
      w == startManageRecords(
             showMainMenu([NoWorld EXCEPT !.records = <<record>>]), u, FALSE)
  IN handleZoneSelectedForManage(w, u, LastID(w.msgs), Zones[1], FALSE)

InitEnv ==
  /\ now = 0
  /\ mu = 0
  /\ pc = [p \in Procs |-> "idle"]
  /\ call = [p \in Procs |-> NoCall]
  /\ ref = [p \in Procs |-> NoRef]
  /\ ret = [p \in Procs |-> NoRet]
  /\ cpc = "wait"
  /\ lastAccess = NoData
  /\ sweptIdle = [u \in Users |-> FALSE]
  /\ cleared = [p \in Procs |-> FALSE]
  /\ states = ListWorld.states
  /\ heap = ListWorld.heap
  /\ msgs = ListWorld.msgs
  /\ records = ListWorld.records
  /\ conf = [p \in Procs |-> ConfIdle]
  /\ creates = 0
  /\ uc = NoUc

\* the record list, the edit flow and the way into the create flow, with
\* these inputs
NextEnv ==
  \/ CreateInZone
  \/ SelectType
  \/ ViewRec
  \/ Refresh
  \/ EditRecord
  \/ EditContent
  \/ EditTTL
  \/ EditProxied
  \/ BackToEdit
  \/ SelectTTL
  \/ TextMessage
  \/ RawSelectTTL
  \/ BadTTLText
  \/ McpUpdateRecord
  \/ McpDeleteRecord

SpecEnv == InitEnv /\ [][NextEnv]_vars

----------------------------------------------------------------------------
(* Claims about invalid input and about the edit flow *)

TTLErrors == {"Invalid TTL. Please enter a number.", "Invalid TTL value"}

\* after the step the user is where they were, nothing new is stored, and
\* a message newly shows a TTL error
StaysWithError ==
  /\ GetCurrentStep(NextWorld, TheUser) = GetCurrentStep(World, TheUser)
  /\ \A k \in {"ttl", "edit_current_ttl"} :
       GetData(NextWorld, TheUser, k) = GetData(World, TheUser, k)
  /\ \E m \in DOMAIN msgs' :
       /\ msgs'[m].text \in TTLErrors
       /\ m \in DOMAIN msgs => msgs[m] # msgs'[m]

\* C11: when the user is asked for a TTL and supplies a value that does not
\* parse as a number, as a text or as the payload of a select_ttl callback,
\* the wizard stays on the step, stores nothing and shows an error.
C11_BadNumberStays ==
  [][/\ \A text \in BadNumbers :
          (/\ GetCurrentStep(World, TheUser) \in TTLSteps
           /\ Atoi(text).err
           /\ Text(text, FALSE))
          => StaysWithError
     /\ \A m \in DOMAIN msgs : \A v \in BadNumbers :
          (/\ GetCurrentStep(World, TheUser) \in TTLSteps
           /\ Atoi(v).err
           /\ Commit(handleCallback(World, TheUser, m,
                                    "select_ttl:" \o v, FALSE)))
          => StaysWithError]_vars

\* the record the user has open in the edit menu, as the zone holds it
OpenRecord(recs) ==
  FindByName(recs,
    ensureFullRecordName(GetData(World, TheUser, "edit_record_name").val,
                         GetData(World, TheUser, "edit_zone").val))

\* the step made an update call, and every field of the open record other
\* than `field` is after the step what the zone held before it
OthersKept(w, field) ==
  w.calls = <<"update">>
    => /\ OpenRecord(records').err = OpenRecord(records).err
       /\ \A f \in {"ID", "Name", "Type", "Content", "TTL", "Proxied"} \ {field} :
            OpenRecord(records').record[f] = OpenRecord(records).record[f]

\* C12: an edit action (toggle proxied, a new content, a new TTL) that
\* issues its update leaves every field of the record other than the chosen
\* one at the value the zone holds when the action is handled.
C12_EditKeepsOtherFields ==
  [][/\ \A m \in DOMAIN msgs : \A b \in msgs[m].kb : \A fail \in BOOLEAN :
          (ActionIs(b, "edit_proxied") /\ Press(m, b, fail))
          => OthersKept(handleCallback(World, TheUser, m, b.data, fail),
                        "Proxied")
     /\ \A text \in Texts : \A fail \in BOOLEAN :
          Text(text, fail)
          => OthersKept(handleMessage(World, TheUser, text, fail),
               IF GetCurrentStep(World, TheUser) = StepEditRecordContent
               THEN "Content" ELSE "TTL")]_vars

\* the user has a record open: startEditRecord has stored its fields
EditFieldsStored == \A k \in EditKeys : GetData(World, TheUser, k).exists

\* the handler whose result is w made exactly one update call, and the step
\* ends with the user in no step
AppliedOnce(w) ==
  /\ w.calls = <<"update">>
  /\ GetCurrentStep(NextWorld, TheUser) = StepNone

\* C13: in the edit flow, once the user has picked a field of the open
\* record and supplies a valid new value for it (a text, or a button of the
\* Edit TTL prompt; Toggle Proxy picks and supplies in one press), exactly
\* one update call is made and the conversation returns to None without
\* entering any other step.
C13_EditAppliesOnce ==
  [][/\ \A text \in Texts :
          (/\ GetCurrentStep(World, TheUser)
                \in {StepEditRecordContent, StepEditRecordTTL}
           /\ EditFieldsStored
           /\ Text(text, FALSE))
          => AppliedOnce(handleMessage(World, TheUser, text, FALSE))
     /\ \A m \in DOMAIN msgs : \A b \in msgs[m].kb :
          (/\ EditFieldsStored
           /\ \/ ActionIs(b, "edit_proxied")
              \/ /\ ActionIs(b, "select_ttl")
                 /\ GetCurrentStep(World, TheUser) = StepEditRecordTTL
                 /\ msgs[m] = startEditTTL(World, TheUser, m).msgs[m]
           /\ Press(m, b, FALSE))
          => AppliedOnce(handleCallback(World, TheUser, m, b.data, FALSE))]_vars

----------------------------------------------------------------------------
(* Claims about the outcome of the create call *)

\* strings.Contains
Contains(s, substr) ==
  \E i \in 1..(Len(s) - Len(substr) + 1) :
    SubSeq(s, i, i + Len(substr) - 1) = substr

\* goroutine p reports in this step a create call that failed with
\* ErrDuplicateRecord
ReportsDuplicate(p) ==
  /\ conf[p].at = "reply"
  /\ conf'[p].at = "clear"
  /\ conf[p].res.err = ErrDuplicateRecord

ResolutionErrors == {"failed to get zone", ErrRecordNotFound}

\* after the step the user's conversation state is gone, a message newly
\* offers a button back to the menu, and the handler whose result is w made
\* no second backend call
Aborted(w) ==
  /\ TheUser \notin DOMAIN states'
  /\ \E m \in DOMAIN msgs' :
       /\ m \in DOMAIN msgs => msgs[m] # msgs'[m]
       /\ \E b \in msgs'[m].kb : b.data = "menu"
  /\ Len(w.calls) <= 1

\* C15: when the backend call of a step of the edit flow fails because the
\* zone or the record cannot be resolved (opening the record with Edit;
\* Toggle Proxy, a new content or a new TTL for a record that is gone), the
\* user's conversation state is cleared, the user gets a message with a way
\* back to the menu, and the call is not made again.
C15_ResolutionErrorAborts ==
  [][/\ \A m \in DOMAIN msgs : \A b \in msgs[m].kb : \A fail \in BOOLEAN :
          LET parts == Split(b.data, ":")
              w == handleCallback(World, TheUser, m, b.data, fail)
          IN (/\ Press(m, b, fail)
              /\ \/ /\ ActionIs(b, "edit_record")
                    /\ GetRecord(World, parts[2], parts[3], fail).err
                         \in ResolutionErrors
                 \/ /\ ActionIs(b, "edit_proxied")
                    /\ w.calls = <<"update">>
                    /\ OpenRecord(records).err \in ResolutionErrors)
             => Aborted(w)
     /\ \A text \in Texts : \A fail \in BOOLEAN :
          LET w == handleMessage(World, TheUser, text, fail)
          IN (/\ Text(text, fail)
              /\ w.calls = <<"update">>
              /\ OpenRecord(records).err \in ResolutionErrors)
             => Aborted(w)]_vars

----------------------------------------------------------------------------
(* The record list of a zone with many records: its pages, the rows'       *)
(* addresses and what resolves them, while another client deletes records  *)

MaxList == 25        \* records the zone holds at the start

\* callback data of the client's own making
RawPages == {"-1", "0", "2", "99"}
RawRows == {"-1", "4", "5"}

ListOf(n) ==
  [i \in 1..n |->
     [ID |-> "r" \o ToString(i),
      Name |-> "h" \o ToString(i) \o "." \o Zones[1], Type |-> "A",
      Content |-> "10.0.0." \o ToString(i), TTL |-> DefaultTTL,
      Proxied |-> FALSE]]

\* the program when the user, coming from /start and Manage Records, looks
\* at page 1 of the record list
PagesWorld ==
  LET w == [NoWorld EXCEPT
              !.records = ListOf(MaxList),
              !.msgs = <<[text |-> "Manage Records\n\nSelect a zone:",
                          kb |-> NoKeyboard]>>]
  IN handleZoneSelectedForManage(w, TheUser, 1, Zones[1], FALSE)

InitPages ==
  /\ now = 0
  /\ mu = 0
  /\ pc = [p \in Procs |-> "idle"]
  /\ call = [p \in Procs |-> NoCall]
  /\ ref = [p \in Procs |-> NoRef]
  /\ ret = [p \in Procs |-> NoRet]
  /\ cpc = "wait"
  /\ lastAccess = NoData
  /\ sweptIdle = [u \in Users |-> FALSE]
  /\ cleared = [p \in Procs |-> FALSE]
  /\ states = PagesWorld.states
  /\ heap = PagesWorld.heap
  /\ msgs = PagesWorld.msgs
  /\ records = PagesWorld.records
  /\ conf = [p \in Procs |-> ConfIdle]
  /\ creates = 0
  /\ uc = NoUc

\* the user presses a button the list or the detail shows, and the API
\* answers
PressShown(action) ==
  \E m \in DOMAIN msgs :
    \E b \in {x \in msgs[m].kb : ActionIs(x, action)} : Press(m, b, FALSE)

TurnPage == PressShown("page")
OpenRow == PressShown("view_rec")
BackToList == PressShown("refresh")

\* a page callback with a page number of the client's own making
RawPage ==
  \E m \in DOMAIN msgs, p \in RawPages :
    Commit(handleCallback(World, TheUser, m,
                          "page:" \o Zones[1] \o ":" \o p, FALSE))

\* a view_rec callback with an address of the client's own making
RawViewRec ==
  \E m \in DOMAIN msgs, p \in RawPages, i \in RawRows :
    Commit(handleCallback(World, TheUser, m,
             "view_rec:" \o Zones[1] \o ":" \o p \o ":" \o i, FALSE))

\* another client (the MCP delete_record tool) deletes the last record
McpDeleteLast ==
  /\ Len(records) > 0
  /\ records' = DeleteRecord(World, Zones[1], records[Len(records)].Name,
                             FALSE).w.records
  /\ UNCHANGED <<states, heap, msgs, conf, creates>>
  /\ UNCHANGED procvars

\* interfaces.go, the telebot Bot: handleViewRecord and handleDeleteRecord
\* resolve the address page, idx against the list ListRecords returns.
\* records[startIdx+idx] with a negative index panics: nothing is sent, and
\* whether the process survives is up to the library's recover
\* what the handler leaves: the text it shows, whether it panicked, the
\* records
handleViewRecord(w, zoneName, pageStr, idxStr, fail) ==
  LET page == Atoi(pageStr).val
      idx == Atoi(idxStr).val
      l == ListRecords(w, zoneName, fail)
      at == page * RecordsPerPage + idx
  IN IF l.err # NoErr
     THEN [text |-> "Error loading records: " \o l.err, panicked |-> FALSE,
           records |-> w.records]
     ELSE IF at >= Len(l.records)
     THEN [text |-> "Record not found.", panicked |-> FALSE,
           records |-> w.records]
     ELSE IF at < 0
     THEN [text |-> "", panicked |-> TRUE, records |-> w.records]
     ELSE [text |-> "Record Details\n\nZone: " \o zoneName \o "\nName: "
                      \o l.records[at + 1].Name,
           panicked |-> FALSE, records |-> w.records]

handleDeleteRecord(w, zoneName, pageStr, idxStr, fail) ==
  LET page == Atoi(pageStr).val
      idx == Atoi(idxStr).val
      l == ListRecords(w, zoneName, fail)
      at == page * RecordsPerPage + idx
  IN IF l.err # NoErr
     THEN [text |-> "Error loading records: " \o l.err, panicked |-> FALSE,
           records |-> w.records]
     ELSE IF at >= Len(l.records)
     THEN [text |-> "Record not found.", panicked |-> FALSE,
           records |-> w.records]
     ELSE IF at < 0
     THEN [text |-> "", panicked |-> TRUE, records |-> w.records]
     ELSE LET r == l.records[at + 1]
              d == DeleteRecord(w, zoneName, r.ID, fail)
          IN IF d.err # NoErr
             THEN [text |-> "Error deleting record: " \o d.err,
                   panicked |-> FALSE, records |-> d.w.records]
             ELSE [text |-> "Record Deleted\n\nName: " \o r.Name,
                   panicked |-> FALSE, records |-> d.w.records]

\* the telebot Bot handles a view_rec or delete_rec callback; the last
\* address resolved and its outcome are kept
TeleResolve(handler, p, i) ==
  LET o == IF handler = "view"
           THEN handleViewRecord(World, Zones[1], p, i, FALSE)
           ELSE handleDeleteRecord(World, Zones[1], p, i, FALSE)
  IN /\ records' = o.records
     /\ uc' = [uc EXCEPT !.outs =
                 <<[handler |-> handler, page |-> Atoi(p).val,
                    idx |-> Atoi(i).val, n |-> Len(records),
                    text |-> o.text, panicked |-> o.panicked,
                    kept |-> o.records = records]>>]
     /\ UNCHANGED <<states, heap, msgs, conf, creates>>
     /\ UNCHANGED <<now, mu, pc, call, ref, ret, cpc, lastAccess, sweptIdle,
                    cleared>>

TeleViewRecord == \E p \in RawPages, i \in RawRows : TeleResolve("view", p, i)

TeleDeleteRecord ==
  \E p \in RawPages, i \in RawRows : TeleResolve("delete", p, i)

NextPages ==
  \/ TurnPage \/ OpenRow \/ BackToList \/ RawPage \/ RawViewRec
  \/ McpDeleteLast

\* the telebot Bot resolving addresses while records are deleted
NextTele == TeleViewRecord \/ TeleDeleteRecord \/ McpDeleteLast

SpecTele == InitPages /\ [][NextTele]_vars

SpecPages == InitPages /\ [][NextPages]_vars

----------------------------------------------------------------------------
(* The payloads of the list's buttons for zone names of every length *)

MaxZoneChars == 60   \* characters of the longest zone name

EncodedPages == {0, 2, 12}
EncodedRows == {0, 9}

RECURSIVE ZoneOfLen(_)
ZoneOfLen(n) == IF n = 0 THEN "" ELSE ZoneOfLen(n - 1) \o "z"

InitPayload ==
  /\ states = NoData
  /\ heap = NoData
  /\ now = 0
  /\ mu = 0
  /\ pc = [p \in Procs |-> "idle"]
  /\ call = [p \in Procs |-> NoCall]
  /\ ref = [p \in Procs |-> NoRef]
  /\ ret = [p \in Procs |-> NoRet]
  /\ cpc = "wait"
  /\ lastAccess = NoData
  /\ sweptIdle = [u \in Users |-> FALSE]
  /\ cleared = [p \in Procs |-> FALSE]
  /\ msgs = << >>
  /\ records = << >>
  /\ conf = [p \in Procs |-> ConfIdle]
  /\ creates = 0
  /\ \E n \in 0..MaxZoneChars : uc = [NoUc EXCEPT !.zone = ZoneOfLen(n)]

\* refreshZoneRecords builds the payload of a record row
EncodeRow ==
  /\ \E page \in EncodedPages, idx \in EncodedRows :
       uc' = [uc EXCEPT !.outs =
                <<[kind |-> "view_rec", page |-> page, idx |-> idx,
                   data |-> viewCallbackData(uc.zone, page, idx)]>>]
  /\ UNCHANGED <<states, heap, msgs, records, conf, creates>>
  /\ UNCHANGED <<now, mu, pc, call, ref, ret, cpc, lastAccess, sweptIdle,
                 cleared>>

\* refreshZoneRecords builds the payload of a Prev or Next button
EncodePage ==
  /\ \E page \in EncodedPages :
       uc' = [uc EXCEPT !.outs =
                <<[kind |-> "page", page |-> page, idx |-> 0,
                   data |-> pageCallbackData(uc.zone, page)]>>]
  /\ UNCHANGED <<states, heap, msgs, records, conf, creates>>
  /\ UNCHANGED <<now, mu, pc, call, ref, ret, cpc, lastAccess, sweptIdle,
                 cleared>>

NextPayload == EncodeRow \/ EncodePage

SpecPayload == InitPayload /\ [][NextPayload]_vars

----------------------------------------------------------------------------
(* The record list of a zone in which two records share a name, the detail *)
(* view with its Edit and Delete buttons, and another client that deletes  *)
(* the first record of the list while the user looks at the list           *)

\* what the zone holds at the start
RowsList ==
  <<[ID |-> "r1", Name |-> "www." \o Zones[1], Type |-> "A",
     Content |-> "10.0.0.1", TTL |-> DefaultTTL, Proxied |-> FALSE],
    [ID |-> "r2", Name |-> "www." \o Zones[1], Type |-> "AAAA",
     Content |-> "fd00::2", TTL |-> DefaultTTL, Proxied |-> TRUE],
    [ID |-> "r3", Name |-> "mail." \o Zones[1], Type |-> "A",
     Content |-> "10.0.0.3", TTL |-> DefaultTTL, Proxied |-> FALSE]>>

\* the program when the user, coming from /start and Manage Records, looks
\* at the record list
RowsWorld ==
  LET w == [NoWorld EXCEPT
              !.records = RowsList,
              !.msgs = <<[text |-> "Manage Records\n\nSelect a zone:",
                          kb |-> NoKeyboard]>>]
  IN handleZoneSelectedForManage(w, TheUser, 1, Zones[1], FALSE)

InitRows ==
  /\ now = 0
  /\ mu = 0
  /\ pc = [p \in Procs |-> "idle"]
  /\ call = [p \in Procs |-> NoCall]
  /\ ref = [p \in Procs |-> NoRef]
  /\ ret = [p \in Procs |-> NoRet]
  /\ cpc = "wait"
  /\ lastAccess = NoData
  /\ sweptIdle = [u \in Users |-> FALSE]
  /\ cleared = [p \in Procs |-> FALSE]
  /\ states = RowsWorld.states
  /\ heap = RowsWorld.heap
  /\ msgs = RowsWorld.msgs
  /\ records = RowsWorld.records
  /\ conf = [p \in Procs |-> ConfIdle]
  /\ creates = 0
  /\ uc = NoUc

AskDelete == PressShown("delete_record")
ConfirmDelete == PressShown("confirm_delete")
CancelDelete == PressShown("cancel_delete")
BackToRecords == PressShown("select_zone_manage")

\* another client (the MCP delete_record tool) deletes the first record of
\* the list
McpDeleteFirst ==
  /\ Len(records) > 0
  /\ records' = DeleteRecord(World, Zones[1], records[1].Name,
                             FALSE).w.records
  /\ UNCHANGED <<states, heap, msgs, conf, creates>>
  /\ UNCHANGED procvars

NextRows ==
  \/ OpenRow
  \/ BackToList
  \/ AskDelete
  \/ ConfirmDelete
  \/ CancelDelete
  \/ BackToRecords
  \/ EditRecord
  \/ EditProxied
  \/ McpDeleteFirst

SpecRows == InitRows /\ [][NextRows]_vars

----------------------------------------------------------------------------
(* The access gate of the tgbotapi Bot: Start's loop over the updates,     *)
(* isAuthorized, handleUnauthorizedUser and the request / approve / reject *)
(* handlers. uc holds the bot's allowedIDs, the stored pending requests    *)
(* and what was done with the last update.                                 *)

NumGateUsers == 3
GateUsers == 1..NumGateUsers

\* TELEGRAM_ALLOWED_USERS as config.Load accepts it: unset, or user 1
AllowedConfigs == {{}, {1}}

GateData ==
  {"zones", "request_access", "approve_request", "reject_request"}
    \cup {"approve_request:" \o ToString(t) : t \in GateUsers}
    \cup {"reject_request:" \o ToString(t) : t \in GateUsers}

isAuthorized(allowedIDs, userID) ==
  IF Cardinality(allowedIDs) = 0 THEN TRUE ELSE userID \in allowedIDs

NewBot(allowedUsers) ==
  [allowedIDs |-> allowedUsers, pending |-> {}, handled |-> << >>]

InitGate ==
  /\ states = NoData
  /\ heap = NoData
  /\ now = 0
  /\ mu = 0
  /\ pc = [p \in Procs |-> "idle"]
  /\ call = [p \in Procs |-> NoCall]
  /\ ref = [p \in Procs |-> NoRef]
  /\ ret = [p \in Procs |-> NoRet]
  /\ cpc = "wait"
  /\ lastAccess = NoData
  /\ sweptIdle = [u \in Users |-> FALSE]
  /\ cleared = [p \in Procs |-> FALSE]
  /\ msgs = << >>
  /\ records = << >>
  /\ conf = [p \in Procs |-> ConfIdle]
  /\ creates = 0
  /\ \E allowedUsers \in AllowedConfigs : uc = NewBot(allowedUsers)

\* what Start did with one update of user u: the handler it was given to
\* ("" when it was given to none) and the text sent back
Handled(g, u, update, data, handler, reply, notified) ==
  [user |-> u, update |-> update, data |-> data,
   listed |-> u \in g.allowedIDs, admins |-> g.allowedIDs,
   handler |-> handler, reply |-> reply, notified |-> notified]

handleUnauthorizedUser(g, u) ==
  IF u \in g.pending
    THEN "Your access request is pending approval."
    ELSE "Access Denied"

\* the admins notifyAdminsOfNewRequest sends the request to
notifyAdminsOfNewRequest(g) ==
  IF Cardinality(g.allowedIDs) = 0 THEN {} ELSE g.allowedIDs

\* the answer of handleRequestAccess and the requests stored after it
handleRequestAccess(g, u, fail) ==
  IF u \in g.pending
    THEN [pending |-> g.pending, allowedIDs |-> g.allowedIDs,
          reply |-> "Your access request is already pending approval.",
          notified |-> {}]
  ELSE IF fail
    THEN [pending |-> g.pending, allowedIDs |-> g.allowedIDs,
          reply |-> "Failed to submit request.", notified |-> {}]
  ELSE [pending |-> g.pending \cup {u}, allowedIDs |-> g.allowedIDs,
        reply |-> "Access Request Submitted",
        notified |-> notifyAdminsOfNewRequest(g)]

handleApproveRequest(g, userID, fail) ==
  IF userID \notin g.pending
    THEN [pending |-> g.pending, allowedIDs |-> g.allowedIDs,
          reply |-> "Request not found or already processed.",
          notified |-> {}]
  ELSE IF fail
    THEN [pending |-> g.pending, allowedIDs |-> g.allowedIDs,
          reply |-> "Failed to process request.", notified |-> {}]
  ELSE [pending |-> g.pending \ {userID},
        allowedIDs |-> g.allowedIDs \cup {userID},
        reply |-> "Request Approved", notified |-> {}]

handleRejectRequest(g, userID, fail) ==
  IF userID \notin g.pending
    THEN [pending |-> g.pending, allowedIDs |-> g.allowedIDs,
          reply |-> "Request not found or already processed.",
          notified |-> {}]
  ELSE IF fail
    THEN [pending |-> g.pending, allowedIDs |-> g.allowedIDs,
          reply |-> "Failed to process request.", notified |-> {}]
  ELSE [pending |-> g.pending \ {userID}, allowedIDs |-> g.allowedIDs,
        reply |-> "Request Rejected", notified |-> {}]

\* handleCallback's cases of the access gate; every other action goes to a
\* handler of the menu, the records, the API keys or the MCP server
handleGateCallback(g, u, data, fail) ==
  LET parts == Split(data, ":")
      action == parts[1]
      same == [pending |-> g.pending, allowedIDs |-> g.allowedIDs,
               reply |-> "", notified |-> {}]
  IN CASE action = "request_access" -> handleRequestAccess(g, u, fail)
       [] action = "approve_request" ->
            IF Len(parts) > 1
              THEN handleApproveRequest(g, Atoi(parts[2]).val, fail)
              ELSE same
       [] action = "reject_request" ->
            IF Len(parts) > 1
              THEN handleRejectRequest(g, Atoi(parts[2]).val, fail)
              ELSE same
       [] OTHER -> same

GateUnchanged ==
  /\ UNCHANGED <<states, heap, msgs, records, conf, creates>>
  /\ UNCHANGED <<now, mu, pc, call, ref, ret, cpc, lastAccess, sweptIdle,
                 cleared>>

\* Start receives a message of user u
GateMessage ==
  /\ \E u \in GateUsers :
       uc' = [uc EXCEPT !.handled =
                IF ~isAuthorized(uc.allowedIDs, u)
                  THEN <<Handled(uc, u, "message", "/start", "",
                                 handleUnauthorizedUser(uc, u), {})>>
                  ELSE <<Handled(uc, u, "message", "/start",
                                 "handleMessage", "", {})>>]
  /\ GateUnchanged

\* Start receives a button press of user u with the payload data
GateCallback ==
  /\ \E u \in GateUsers, data \in GateData, fail \in BOOLEAN :
       IF ~isAuthorized(uc.allowedIDs, u)
         THEN uc' = [uc EXCEPT !.handled =
                       <<Handled(uc, u, "callback", data, "",
                                 "Not authorized", {})>>]
         ELSE LET r == handleGateCallback(uc, u, data, fail)
              IN uc' = [allowedIDs |-> r.allowedIDs, pending |-> r.pending,
                        handled |-> <<Handled(uc, u, "callback", data,
                                              "handleCallback", r.reply,
                                              r.notified)>>]
  /\ GateUnchanged

NextGate == GateMessage \/ GateCallback

SpecGate == InitGate /\ [][NextGate]_vars

----------------------------------------------------------------------------
(* The API keys of the MCP HTTP server: the bot's key menu (bot.go), the   *)
(* key storage (json_storage.go) and handleRequest of MCPHTTPServer (the   *)
(* bot's main package, printed in README.md). uc holds the stored keys,    *)
(* the keys of the environment, the delete menu last shown and what the    *)
(* last operation did.                                                     *)

\* hex.EncodeToString of 32 random bytes
KeyHexLen == 64
MaxKeys == 2

RECURSIVE Repeat(_, _)
Repeat(c, n) == IF n = 0 THEN "" ELSE Repeat(c, n - 1) \o c

\* the keys generateRandomKey returns in the model
GeneratedKeys == {Repeat("a", KeyHexLen), Repeat("b", KeyHexLen)}

\* MCP_API_KEY of the environment: unset, or one key
EnvConfigs == {<< >>, <<"envkey">>}

\* the Authorization headers a client sends ("" is no header)
AuthHeaders ==
  {"", "Basic envkey", "Bearer wrong", "Bearer envkey", "bearer envkey"}
    \cup {"Bearer " \o k : k \in GeneratedKeys}

HttpMethods == {"POST", "GET"}
RpcMethods == {"tools/call", "tools/list", "nothing"}

InitKeys ==
  /\ states = NoData
  /\ heap = NoData
  /\ now = 0
  /\ mu = 0
  /\ pc = [p \in Procs |-> "idle"]
  /\ call = [p \in Procs |-> NoCall]
  /\ ref = [p \in Procs |-> NoRef]
  /\ ret = [p \in Procs |-> NoRet]
  /\ cpc = "wait"
  /\ lastAccess = NoData
  /\ sweptIdle = [u \in Users |-> FALSE]
  /\ cleared = [p \in Procs |-> FALSE]
  /\ msgs = << >>
  /\ records = << >>
  /\ conf = [p \in Procs |-> ConfIdle]
  /\ creates = 0
  /\ \E env \in EnvConfigs :
       uc = [keys |-> << >>, env |-> env, menu |-> << >>, last |-> << >>]

KeysUnchanged ==
  /\ UNCHANGED <<states, heap, msgs, records, conf, creates>>
  /\ UNCHANGED <<now, mu, pc, call, ref, ret, cpc, lastAccess, sweptIdle,
                 cleared>>

\* isValidAPIKey of the main package and jsonStorage.IsValidAPIKey
isValidAPIKey(validKeys, key) ==
  \E i \in 1..Len(validKeys) : validKeys[i] = key

AddAPIKey(keys, key) ==
  IF isValidAPIKey(keys, key)
    THEN [keys |-> keys, err |-> "API key already exists"]
    ELSE [keys |-> Append(keys, key), err |-> ""]

RemoveAPIKey(keys, key) ==
  IF ~isValidAPIKey(keys, key)
    THEN [keys |-> keys, err |-> "API key not found"]
    ELSE [keys |-> SelectSeq(keys, LAMBDA k : k # key), err |-> ""]

\* the payload startDeleteAPIKey gives the button of a key
deleteCallbackData(key) ==
  LET callbackData == "confirm_delete_apikey:" \o key
  IN IF Len(callbackData) > CallbackDataMax
       THEN SubSeq(callbackData, 1, CallbackDataMax)
       ELSE callbackData

\* handleGenerateAPIKey
GenerateKey ==
  /\ Len(uc.keys) < MaxKeys
  /\ \E key \in GeneratedKeys :
       LET r == AddAPIKey(uc.keys, key)
       IN uc' = [uc EXCEPT !.keys = r.keys,
                           !.last = <<[kind |-> "generate", key |-> key,
                                       err |-> r.err]>>]
  /\ KeysUnchanged

\* startDeleteAPIKey: the delete menu with one button for each stored key
OpenDeleteMenu ==
  /\ uc' = [uc EXCEPT !.menu = [i \in 1..Len(uc.keys) |->
                                  [key |-> uc.keys[i],
                                   data |-> deleteCallbackData(uc.keys[i])]],
                      !.last = << >>]
  /\ KeysUnchanged

\* handleCallback's confirm_delete_apikey case and handleConfirmDeleteAPIKey,
\* for the press of row i of the delete menu
PressDeleteKey ==
  /\ \E i \in 1..Len(uc.menu) :
       LET parts == Split(uc.menu[i].data, ":")
           key == Join(SubSeq(parts, 2, Len(parts)), ":")
           r == RemoveAPIKey(uc.keys, key)
       IN uc' = [uc EXCEPT !.keys = r.keys,
                           !.last = <<[kind |-> "delete",
                                       selected |-> uc.menu[i].key,
                                       key |-> key, err |-> r.err,
                                       before |-> uc.keys]>>]
  /\ KeysUnchanged

\* handleAPIKeyDelete of the telebot Bot, for the press of row i of its
\* delete menu, whose payload is the index of the row
TeleDeleteKey ==
  /\ \E i \in 1..Len(uc.menu) :
       LET keyIdx == i - 1
       IN IF keyIdx < 0 \/ keyIdx >= Len(uc.keys)
            THEN uc' = [uc EXCEPT !.last =
                          <<[kind |-> "delete", selected |-> uc.menu[i].key,
                             key |-> "", err |-> "Invalid key index.",
                             before |-> uc.keys]>>]
            ELSE LET key == uc.keys[keyIdx + 1]
                     r == RemoveAPIKey(uc.keys, key)
                 IN uc' = [uc EXCEPT !.keys = r.keys,
                             !.last = <<[kind |-> "delete",
                                         selected |-> uc.menu[i].key,
                                         key |-> key, err |-> r.err,
                                         before |-> uc.keys]>>]
  /\ KeysUnchanged

\* strings.SplitN(s, " ", 2)
SplitN2(s) ==
  LET i == IndexOf(s, " ", 1)
  IN IF i = 0 THEN <<s>>
     ELSE <<SubSeq(s, 1, i - 1), SubSeq(s, i + 1, Len(s))>>

\* strings.ToLower of an authorization scheme
ToLower(s) ==
  CASE s = "Bearer" -> "bearer"
    [] s = "Basic" -> "basic"
    [] OTHER -> s

\* handleRequest: the JSON-RPC error code answered (0 for a result) and
\* whether the method was executed
handleRequest(keys, env, authHeader, httpMethod, rpcMethod) ==
  LET apiKeys == keys \o env
      parts == SplitN2(authHeader)
      refused(code) == [code |-> code, executed |-> FALSE]
  IN IF Len(apiKeys) > 0 /\ authHeader = "" THEN refused(-32001)
     ELSE IF Len(apiKeys) > 0
             /\ (Len(parts) # 2 \/ ToLower(parts[1]) # "bearer")
       THEN refused(-32001)
     ELSE IF Len(apiKeys) > 0
             /\ ~isValidAPIKey(keys, parts[2])
             /\ ~isValidAPIKey(apiKeys, parts[2])
       THEN refused(-32001)
     ELSE IF httpMethod # "POST" THEN refused(-32600)
     ELSE IF rpcMethod \notin {"initialize", "tools/list", "tools/call"}
       THEN refused(-32601)
     ELSE [code |-> 0, executed |-> TRUE]

\* the MCP HTTP server receives a request
HttpRequest ==
  /\ \E authHeader \in AuthHeaders, httpMethod \in HttpMethods,
        rpcMethod \in RpcMethods :
       LET r == handleRequest(uc.keys, uc.env, authHeader, httpMethod,
                              rpcMethod)
       IN uc' = [uc EXCEPT !.last =
                   <<[kind |-> "request", header |-> authHeader,
                      method |-> rpcMethod, code |-> r.code,
                      executed |-> r.executed]>>]
  /\ KeysUnchanged

NextKeys ==
  \/ GenerateKey
  \/ OpenDeleteMenu
  \/ PressDeleteKey
  \/ TeleDeleteKey
  \/ HttpRequest

SpecKeys == InitKeys /\ [][NextKeys]_vars

----------------------------------------------------------------------------
(* usecase/dns_usecase.go called directly (as the MCP tools and the HTTP    *)
(* API do), stepped from one repository call to the next: zone resolution, *)
(* FindByName, then the write.  Each repository call may fail.             *)

MaxCreates == 3      \* records the API creates in all
MaxCalls == 3        \* operations called in all
Window == 2          \* returned calls the history keeps

UseNames == {"www", "www.example.com", "@"}
UseContents == {"1", "2"}
UseOps == {"get", "create", "update", "delete", "upsert"}

UseCalls ==
  {[op |-> o, ZoneName |-> Zones[1], Name |-> n, Type |-> "A",
    Content |-> c, TTL |-> 0, Proxied |-> FALSE] :
      o \in UseOps, n \in UseNames, c \in UseContents}

TheCaller == CHOOSE p \in Procs : TRUE

\* an implementation that qualifies the name when it writes a new record
\* but not when it looks one up
QualifiedNameOnCreate(op, recordName, zoneName) ==
  IF op = "create" THEN ensureFullRecordName(recordName, zoneName)
  ELSE recordName

\* the name an operation sends to the repository: each of GetRecord,
\* CreateRecord, UpdateRecord, DeleteRecord and UpsertRecord calls
\* ensureFullRecordName on the caller's name
QualifiedName(op, recordName, zoneName) ==
  ensureFullRecordName(recordName, zoneName)

\* an UpsertRecord that creates whatever FindByName found
WriteKindCreate(op, found) == IF op = "upsert" THEN "create" ELSE op

\* the repository call an operation ends with, given what FindByName found
WriteKind(op, found) ==
  IF op = "upsert" THEN (IF found THEN "update" ELSE "create") ELSE op

NamedLike(recs, name) == {i \in DOMAIN recs : recs[i].Name = name}

\* the operation of caller p returns err; the history keeps the call
UcReturn(p, c, err) ==
  LET d == [op |-> c.op, input |-> c.input, full |-> c.full,
            target |-> c.target, ok |-> c.ok, before |-> c.before,
            api |-> c.api, loaded |-> c.loaded, ttl |-> c.ttl, err |-> err]
      all == Append(uc.done, d)
  IN [uc EXCEPT !.call[p] = NoUse,
                !.done = SubSeq(all, Max(1, Len(all) - Window + 1), Len(all))]

\* caller p calls an operation of the use case
UcStart(p, input) ==
  /\ uc.call[p].at = "idle"
  /\ uc.calls < MaxCalls
  /\ uc' = [uc EXCEPT !.calls = @ + 1,
                      !.call[p] =
              [NoUse EXCEPT !.at = "zone", !.op = input.op, !.input = input]]
  /\ UNCHANGED <<states, heap, msgs, records, conf, creates>>
  /\ UNCHANGED <<now, mu, pc, call, ref, ret, cpc, lastAccess, sweptIdle,
                 cleared>>

\* a use case that sends the caller's TTL as it is
KeptTTL(op, ttl, loaded) == ttl

\* input.TTL after "if input.TTL == 0 { input.TTL = config.DefaultTTL }",
\* which CreateRecord and UpsertRecord run when configStorage.Load succeeded
DefaultedTTL(op, ttl, loaded) ==
  IF op \in {"create", "upsert"} /\ loaded /\ ttl = 0 THEN DefaultTTL ELSE ttl

\* IsValidRecordType (not for get and delete), GetZoneByName, the defaults
\* of the configuration (loads: whether configStorage.Load may succeed,
\* may fail) and the name made fully qualified
UcResolve(p, loads) ==
  LET c == uc.call[p] IN
  /\ c.at = "zone"
  /\ \E fail \in BOOLEAN, load \in loads :
       uc' = IF c.op \in {"create", "update", "upsert"}
                /\ ~IsValidRecordType(c.input.Type)
             THEN UcReturn(p, c, ErrInvalidRecord \o ": invalid record type "
                                  \o c.input.Type)
             ELSE IF fail \/ ~IsZone(c.input.ZoneName)
             THEN UcReturn(p, [c EXCEPT !.ok = FALSE, !.api = @ + 1],
                           "failed to get zone")
             ELSE LET full == QualifiedName(c.op, c.input.Name,
                                            c.input.ZoneName)
                  IN [uc EXCEPT !.call[p] =
                        [c EXCEPT !.at = "find", !.full = full,
                                  !.api = @ + 1,
                                  !.loaded = load,
                                  !.ttl = DefaultedTTL(c.op, c.input.TTL, load),
                                  !.before =
                                    Cardinality(NamedLike(records, full))]]
  /\ UNCHANGED <<states, heap, msgs, records, conf, creates>>
  /\ UNCHANGED <<now, mu, pc, call, ref, ret, cpc, lastAccess, sweptIdle,
                 cleared>>

\* the step above where the configuration file loads
UcZone(p) == UcResolve(p, {TRUE})

\* the step above where the configuration file may also fail to load
UcZoneAnyConfig(p) == UcResolve(p, BOOLEAN)

\* dnsRepo.FindByName and what each operation does with its result
UcFind(p) ==
  LET c == uc.call[p] IN
  /\ c.at = "find"
  /\ \E fail \in BOOLEAN :
       LET f == IF fail
                THEN [record |-> NoRecord, err |-> "failed to list dns records"]
                ELSE FindByName(records, c.full)
           c1 == [c EXCEPT !.found = (f.err = NoErr), !.target = f.record.ID,
                           !.ok = ~fail, !.api = @ + 1]
           write == [uc EXCEPT !.call[p] = [c1 EXCEPT !.at = "write"]]
       IN uc' = CASE c.op = "get" -> UcReturn(p, c1, f.err)
                  [] c.op = "create" ->
                       IF f.err = NoErr
                       THEN UcReturn(p, c1, ErrDuplicateRecord) ELSE write
                  [] c.op = "upsert" -> write
                  [] OTHER ->
                       IF f.err # NoErr THEN UcReturn(p, c1, f.err) ELSE write
  /\ UNCHANGED <<states, heap, msgs, records, conf, creates>>
  /\ UNCHANGED <<now, mu, pc, call, ref, ret, cpc, lastAccess, sweptIdle,
                 cleared>>

\* dnsRepo.CreateRecord, UpdateRecord or DeleteRecord
UcWrite(p) ==
  LET c == uc.call[p]
      kind == WriteKind(c.op, c.found)
      id == "r" \o ToString(uc.ids + 1)
      record == [ID |-> IF kind = "create" THEN id ELSE c.target,
                 Name |-> c.full, Type |-> c.input.Type,
                 Content |-> c.input.Content,
                 TTL |-> c.ttl,
                 Proxied |-> IF kind = "update"
                             THEN proxiedAfterUpdate(
                                    \E i \in DOMAIN records :
                                      /\ records[i].ID = c.target
                                      /\ records[i].Proxied,
                                    c.input.Proxied)
                             ELSE c.input.Proxied]
      there == \E i \in DOMAIN records : records[i].ID = c.target
  IN
  /\ c.at = "write"
  /\ \E fail \in BOOLEAN :
       IF fail \/ (kind = "create" /\ uc.ids >= MaxCreates)
          \/ (kind # "create" /\ ~there)
       THEN /\ uc' = UcReturn(p, [c EXCEPT !.ok = FALSE, !.api = @ + 1],
                              IF c.op \in {"create", "update"}
                              THEN "failed to " \o kind \o " record: "
                                     \o ApiError
                              ELSE ApiError)
            /\ UNCHANGED records
       ELSE /\ records' =
                 CASE kind = "create" -> Append(records, record)
                   [] kind = "update" ->
                        [i \in DOMAIN records |->
                           IF records[i].ID = c.target THEN record
                           ELSE records[i]]
                   [] OTHER ->
                        SelectSeq(records, LAMBDA r : r.ID # c.target)
            /\ uc' = [UcReturn(p, [c EXCEPT !.target = record.ID,
                                               !.api = @ + 1], NoErr)
                        EXCEPT !.ids = IF kind = "create" THEN @ + 1 ELSE @]
  /\ UNCHANGED <<states, heap, msgs, conf, creates>>
  /\ UNCHANGED <<now, mu, pc, call, ref, ret, cpc, lastAccess, sweptIdle,
                 cleared>>

\* one caller, one operation after the other
NextUse ==
  \/ \E c \in UseCalls : UcStart(TheCaller, c)
  \/ UcZone(TheCaller)
  \/ UcFind(TheCaller)
  \/ UcWrite(TheCaller)

SpecUse == InitStore /\ [][NextUse]_vars

\* the operations called with a zero or a given TTL, a type of the
\* enumeration or another one, for a name that has a record or has none,
\* with a configuration file that loads or does not
InputTypes == {"A", "LOC"}
InputTTLs == {0, 120}

InputCalls ==
  {[op |-> o, ZoneName |-> Zones[1], Name |-> "www", Type |-> t,
    Content |-> "192.168.1.1", TTL |-> l, Proxied |-> TRUE] :
      o \in UseOps, t \in InputTypes, l \in InputTTLs}

NextInputs ==
  \/ \E c \in InputCalls : UcStart(TheCaller, c)
  \/ UcZoneAnyConfig(TheCaller)
  \/ UcFind(TheCaller)
  \/ UcWrite(TheCaller)

SpecInputs == InitStore /\ [][NextInputs]_vars

\* CreateRecord called by several callers at the same time
NextRace ==
  \/ \E p \in Procs : \E c \in {x \in UseCalls : x.op = "create"} :
       UcStart(p, c)
  \/ \E p \in Procs : UcZone(p)
  \/ \E p \in Procs : UcFind(p)
  \/ \E p \in Procs : UcWrite(p)

SpecRace == InitStore /\ [][NextRace]_vars

----------------------------------------------------------------------------
(* ensureFullRecordName applied to its own result, for every record name   *)
(* and zone name over a small alphabet                                     *)

MaxNameLen == 3      \* characters of a record name
MaxZoneLen == 2      \* characters of a zone name
MaxApply == 3        \* times the function is applied

NameChars == {"a", ".", "@"}

RECURSIVE Strs(_)
Strs(n) ==
  IF n = 0 THEN {""}
  ELSE LET shorter == Strs(n - 1)
       IN shorter \cup {s \o c : s \in shorter, c \in NameChars}

InitQualify ==
  /\ states = NoData
  /\ heap = NoData
  /\ now = 0
  /\ mu = 0
  /\ pc = [p \in Procs |-> "idle"]
  /\ call = [p \in Procs |-> NoCall]
  /\ ref = [p \in Procs |-> NoRef]
  /\ ret = [p \in Procs |-> NoRet]
  /\ cpc = "wait"
  /\ lastAccess = NoData
  /\ sweptIdle = [u \in Users |-> FALSE]
  /\ cleared = [p \in Procs |-> FALSE]
  /\ msgs = << >>
  /\ records = << >>
  /\ conf = [p \in Procs |-> ConfIdle]
  /\ creates = 0
  /\ \E n \in Strs(MaxNameLen), z \in Strs(MaxZoneLen) :
       uc = [NoUc EXCEPT !.name = n, !.zone = z]

\* the function applied to the caller's name, then to each result
Qualify ==
  /\ Len(uc.outs) < MaxApply
  /\ uc' = [uc EXCEPT !.outs =
              Append(@, ensureFullRecordName(
                          IF Len(@) = 0 THEN uc.name ELSE @[Len(@)],
                          uc.zone))]
  /\ UNCHANGED <<states, heap, msgs, records, conf, creates>>
  /\ UNCHANGED <<now, mu, pc, call, ref, ret, cpc, lastAccess, sweptIdle,
                 cleared>>

NextQualify == Qualify

SpecQualify == InitQualify /\ [][NextQualify]_vars

----------------------------------------------------------------------------
(* Claims about the record operations of the use case *)

LastTwo == Len(uc.done) = 2
First == uc.done[1]
Second == uc.done[2]

\* the two calls the history keeps are the same operation on the same input
\* and every repository call they made was answered
SameTwice(op) ==
  /\ LastTwo
  /\ First.op = op /\ Second.op = op
  /\ First.input = Second.input
  /\ First.ok /\ Second.ok

\* C16: when CreateRecord is called twice in sequence with the same zone,
\* name, type and content and the backend answers, the first call succeeds
\* (the name being free), the second fails with ErrDuplicateRecord, and the
\* zone holds one record of that name, not two
C16_SecondCreateIsDuplicate ==
  SameTwice("create") =>
    /\ First.err = (IF First.before = 0 THEN NoErr ELSE ErrDuplicateRecord)
    /\ Second.err = ErrDuplicateRecord
    /\ Cardinality(NamedLike(records, Second.full)) = Max(1, First.before)

C16_Witness ==
  /\ SameTwice("create")
  /\ First.before = 0 /\ First.err = NoErr
  /\ Second.err = ErrDuplicateRecord
  /\ Cardinality(NamedLike(records, Second.full)) = 1

\* C17: at every moment, however concurrent CreateRecord calls interleave
\* and whatever the existence lookup answers, the zone holds at most one
\* record for any fully-qualified name
C17_OneRecordPerName ==
  \A i, j \in DOMAIN records :
    records[i].Name = records[j].Name => i = j

CreatedThenUsed ==
  /\ LastTwo
  /\ First.op = "create" /\ First.ok /\ First.err = NoErr
  /\ Second.op \in {"get", "update", "delete", "upsert"} /\ Second.ok
  /\ Second.input.Name = First.input.Name
  /\ Second.input.ZoneName = First.input.ZoneName

\* C20: get, create, update, delete and upsert all send the repository the
\* caller's name made fully qualified by the same function, so the record
\* created with name N in zone Z is the one that get, update, delete and
\* upsert called with N and Z find
C20_SameNameEverywhere ==
  /\ \A p \in Procs :
       uc.call[p].at \in {"find", "write"} =>
         uc.call[p].full = ensureFullRecordName(uc.call[p].input.Name,
                                                uc.call[p].input.ZoneName)
  /\ \A i \in DOMAIN uc.done :
       uc.done[i].ok =>
         uc.done[i].full = ensureFullRecordName(uc.done[i].input.Name,
                                                uc.done[i].input.ZoneName)
  /\ CreatedThenUsed =>
       /\ Second.err = NoErr
       /\ Second.full = First.full
       /\ Second.target = First.target

C20_Witness ==
  /\ CreatedThenUsed
  /\ First.input.Name # First.full
  /\ Second.op = "delete"
  /\ Second.target = First.target
  /\ NamedLike(records, First.full) = {}

\* C19: for every record name and every zone name, ensureFullRecordName
\* applied to its own result returns that result unchanged
C19_QualifyIdempotent ==
  \A i \in DOMAIN uc.outs : uc.outs[i] = uc.outs[1]

C19_Witness ==
  /\ Len(uc.outs) >= 2
  /\ uc.outs[1] # uc.name
  /\ uc.outs[1] = uc.name \o "." \o uc.zone
  /\ uc.outs[2] = uc.outs[1]

----------------------------------------------------------------------------
(* Claims about what the operations do with their input *)

Last == uc.done[Len(uc.done)]

Stored(id) == {i \in DOMAIN records : records[i].ID = id}

\* the call that returned last is a CreateRecord with TTL 0 that succeeded,
\* with a configuration that loaded
CreatedWithZeroTTL ==
  /\ Len(uc.done) > 0
  /\ Last.op = "create" /\ Last.input.TTL = 0
  /\ Last.loaded /\ Last.err = NoErr

\* C21: CreateRecord called with TTL 0 stores the record with the default
\* TTL of the configuration (300) and with the fully-qualified name: input
\* {example.com, www, A, 192.168.1.1, 0, proxied} is stored with TTL 300 and
\* name www.example.com
C21_ZeroTTLTakesDefault ==
  CreatedWithZeroTTL =>
    /\ Stored(Last.target) # {}
    /\ \A i \in Stored(Last.target) :
         /\ records[i].TTL = DefaultTTL
         /\ records[i].Name = Last.input.Name \o "." \o Last.input.ZoneName
         /\ records[i].Content = Last.input.Content
         /\ records[i].Proxied = Last.input.Proxied

C21_Witness ==
  /\ CreatedWithZeroTTL
  /\ Last.input.Name = "www" /\ Last.input.Proxied
  /\ \E i \in Stored(Last.target) :
       records[i].TTL = 300 /\ records[i].Name = "www.example.com"

\* the call that returned last is a create, update or upsert with a type
\* that is not in RecordTypes
InvalidTypeCalled ==
  /\ Len(uc.done) > 0
  /\ Last.op \in {"create", "update", "upsert"}
  /\ \A i \in DOMAIN RecordTypes : RecordTypes[i] # Last.input.Type

\* C22: CreateRecord, UpdateRecord and UpsertRecord called with a type
\* outside RecordTypes return ErrInvalidRecord, and no call of the backend
\* (zone lookup, FindByName, create, update) was made for them
C22_InvalidTypeBeforeBackend ==
  InvalidTypeCalled =>
    /\ Contains(Last.err, ErrInvalidRecord)
    /\ Last.api = 0

C22_Witness ==
  /\ InvalidTypeCalled
  /\ Last.op = "upsert" /\ Last.input.Type = "LOC"
  /\ Last.err = "invalid dns record: invalid record type LOC"
  /\ Last.api = 0

\* what an operation returns when the zone lookup or FindByName failed
LookupErrors == {"failed to get zone", "failed to list dns records"}

\* the call that returned last is an update or a delete whose lookup the
\* backend answered, for a name that had no record
MissingRecordCalled ==
  /\ Len(uc.done) > 0
  /\ Last.op \in {"update", "delete"}
  /\ Last.before = 0
  /\ Last.err \notin LookupErrors
  /\ ~Contains(Last.err, ErrInvalidRecord)

\* C23: UpdateRecord and DeleteRecord called for a name that has no record
\* in the zone return ErrRecordNotFound after the zone lookup and the
\* FindByName call, without a third call that updates or deletes
C23_MissingRecordNotWritten ==
  MissingRecordCalled =>
    /\ Last.err = ErrRecordNotFound
    /\ Last.api = 2

C23_Witness ==
  /\ MissingRecordCalled
  /\ Last.op = "delete"
  /\ Last.err = ErrRecordNotFound
  /\ Last.api = 2
  /\ records = << >>

----------------------------------------------------------------------------
(* Claims about the record list and the addresses of its rows *)

\* page, idx is not a position of a list of n records
NoSuchRow(page, idx, n) ==
  LET at == page * RecordsPerPage + idx IN at < 0 \/ at >= n

AddressPages == -1..3
AddressRows == -1..10

\* C24: for any page and row index that is not a position of the zone's
\* current record list (the list may have shrunk since it was shown),
\* resolving the address shows 'Record not found.', leaves the records as
\* they are and does not panic: in showRecordDetailByIndex of the tgbotapi
\* Bot and in handleViewRecord and handleDeleteRecord of the telebot Bot
C24_BadAddressNotFound ==
  /\ \A m \in DOMAIN msgs, page \in AddressPages, idx \in AddressRows :
       NoSuchRow(page, idx, Len(records)) =>
         LET w == showRecordDetailByIndex(World, TheUser, m, Zones[1],
                                          page, idx, FALSE)
         IN /\ w.msgs[m].text = "Record not found."
            /\ w.records = records
  /\ \A k \in DOMAIN uc.outs :
       NoSuchRow(uc.outs[k].page, uc.outs[k].idx, uc.outs[k].n) =>
         /\ ~uc.outs[k].panicked
         /\ uc.outs[k].text = "Record not found."
         /\ uc.outs[k].kept

\* the list as refreshZoneRecords renders it now for a requested page
RenderedNow(m, page) ==
  refreshZoneRecords(World, TheUser, m, Zones[1], page, FALSE).msgs[m]

\* the page refreshZoneRecords renders for a requested page
Clamped(page, n) ==
  Min(Max(page, 0), Max((n + RecordsPerPage - 1) \div RecordsPerPage, 1) - 1)

\* the rows of a rendered list
RowsOf(msg) == {b \in msg.kb : ActionIs(b, "view_rec")}

Uncut(o) ==
  IF o.kind = "view_rec"
  THEN "view_rec:" \o uc.zone \o ":" \o ToString(o.page) \o ":"
         \o ToString(o.idx)
  ELSE "page:" \o uc.zone \o ":" \o ToString(o.page)

\* the payload with the zone name cut to n characters
CutTo(o, n) ==
  IF o.kind = "view_rec"
  THEN "view_rec:" \o SubSeq(uc.zone, 1, n) \o ":" \o ToString(o.page)
         \o ":" \o ToString(o.idx)
  ELSE "page:" \o SubSeq(uc.zone, 1, n) \o ":" \o ToString(o.page)

\* C26: every address payload is at most 64 bytes long, and where the
\* payload before the cut is longer, the zone name in it is the longest
\* prefix of the zone name with which the payload still fits in 64 bytes
C26_PayloadCutToLongestFit ==
  \A k \in DOMAIN uc.outs :
    LET o == uc.outs[k] IN
    /\ Len(o.data) <= CallbackDataMax
    /\ Len(Uncut(o)) <= CallbackDataMax => o.data = Uncut(o)
    /\ Len(Uncut(o)) > CallbackDataMax =>
         \E n \in 0..Len(uc.zone) :
           /\ o.data = CutTo(o, n)
           /\ Len(CutTo(o, n + 1)) > CallbackDataMax

\* ceil(n / RecordsPerPage), and the spec's totalPages
CeilPages(n) ==
  CHOOSE t \in 0..n :
    /\ t * RecordsPerPage >= n
    /\ \A x \in 0..n : x * RecordsPerPage >= n => t <= x

ExpectedPages(n) == Max(1, CeilPages(n))

PageLine(k, total, n) ==
  "Page " \o ToString(k) \o "/" \o ToString(total) \o " ("
    \o ToString(n) \o " records)"

\* the message reports page k of total pages, in its text and on the
\* indicator button
ReportsPage(msg, k, total, n) ==
  /\ Contains(msg.text, PageLine(k, total, n))
  /\ Btn(ToString(k) \o "/" \o ToString(total), "noop") \in msg.kb

ReportsNoPage(msg) ==
  /\ msg.text = "No records found in " \o Zones[1] \o "."
  /\ \A b \in msg.kb : b.data # "noop" /\ ~ActionIs(b, "page")
  /\ RowsOf(msg) = {}

\* C27 as stated: for every list of n >= 0 records, the empty list
\* included, the rendered list reports max(1, ceil(n/10)) pages
C27_ReportsTotalPages ==
  \A m \in DOMAIN msgs, page \in AddressPages :
    \E k \in 1..ExpectedPages(Len(records)) :
      ReportsPage(RenderedNow(m, page), k, ExpectedPages(Len(records)),
                  Len(records))

\* C27 amended: for every list of n >= 1 records the rendered list reports
\* max(1, ceil(n/10)) pages; for the empty list it reports no page count
\* and says that the zone has no records
C27_ReportsTotalPagesIfAny ==
  \A m \in DOMAIN msgs, page \in AddressPages :
    IF Len(records) = 0 THEN ReportsNoPage(RenderedNow(m, page))
    ELSE \E k \in 1..ExpectedPages(Len(records)) :
           ReportsPage(RenderedNow(m, page), k, ExpectedPages(Len(records)),
                       Len(records))

\* the list of 11 records is shown: two pages
C27_Witness ==
  /\ Len(records) = 11
  /\ \E m \in DOMAIN msgs, k \in 1..2 : ReportsPage(msgs[m], k, 2, 11)

\* the requests for a page: the client's own numbers among them
RequestedPages == AddressPages \cup {99}

\* C28: for any requested page, negative or past the end, the page
\* rendered is within 0..totalPages-1: a negative request renders the
\* first page, a request past the end the last one
C28_RenderedPageInRange ==
  \A m \in DOMAIN msgs, page \in RequestedPages :
    LET n == Len(records)
        total == ExpectedPages(n)
        want == IF page < 0 THEN 0
                ELSE IF page > total - 1 THEN total - 1 ELSE page
        shown == RenderedNow(m, page)
    IN IF n = 0 THEN ReportsNoPage(shown)
       ELSE /\ ReportsPage(shown, want + 1, total, n)
            /\ RowsOf(shown) # {}
            /\ \A b \in RowsOf(shown) :
                 Split(b.data, ":")[3] = ToString(want)

\* 20 records are left and the list shows its last page, the second
C28_Witness ==
  /\ Len(records) = 20
  /\ \E m \in DOMAIN msgs :
       /\ ReportsPage(msgs[m], 2, 2, 20)
       /\ Cardinality(RowsOf(msgs[m])) = 10

HasControl(msg, text) == \E b \in msg.kb : b.text = text /\ ActionIs(b, "page")

\* C29: the rendered list has a Prev control exactly when its page is
\* greater than 0 and a Next control exactly when its page is less than
\* totalPages-1; with 25 records page 0 shows 10 records, Next and no
\* Prev, and page 2 shows 5 records and no Next
C29_ControlsWhereNeighbours ==
  \A m \in DOMAIN msgs, page \in RequestedPages :
    LET n == Len(records)
        total == ExpectedPages(n)
        p == Clamped(page, n)
        shown == RenderedNow(m, page)
    IN /\ HasControl(shown, "Prev") <=> (n > 0 /\ p > 0)
       /\ HasControl(shown, "Next") <=> (n > 0 /\ p < total - 1)
       /\ HasControl(shown, "Prev") =>
            Btn("Prev", "page:" \o Zones[1] \o ":" \o ToString(p - 1))
              \in shown.kb
       /\ HasControl(shown, "Next") =>
            Btn("Next", "page:" \o Zones[1] \o ":" \o ToString(p + 1))
              \in shown.kb
       /\ (n = 25 /\ page = 0) =>
            /\ Cardinality(RowsOf(shown)) = 10
            /\ HasControl(shown, "Next") /\ ~HasControl(shown, "Prev")
       /\ (n = 25 /\ page = 2) =>
            /\ Cardinality(RowsOf(shown)) = 5
            /\ ~HasControl(shown, "Next")

\* the user turned to page 3 of 25 records: five rows, Prev, no Next
C29_Witness ==
  /\ Len(records) = 25
  /\ \E m \in DOMAIN msgs :
       /\ Cardinality(RowsOf(msgs[m])) = 5
       /\ HasControl(msgs[m], "Prev") /\ ~HasControl(msgs[m], "Next")

----------------------------------------------------------------------------
(* Claims about the access gate                                            *)

\* C30: only users on the allow-list (configured, or approved at runtime)
\* use the bot: an update of a user who is not on the list when it arrives
\* is given to no handler.
C30_OnlyListedDispatched ==
  \A i \in 1..Len(uc.handled) :
    uc.handled[i].handler # "" => uc.handled[i].listed

\* C31: when a user who is not on the allow-list presses Request Access, a
\* pending request of that user is recorded (unless the storage refuses it)
\* and the request is sent to every admin.
PressedRequestAccess(h) ==
  /\ h.update = "callback"
  /\ h.data = "request_access"
  /\ ~h.listed

C31_RequestRecordedAndSent ==
  \A i \in 1..Len(uc.handled) :
    LET h == uc.handled[i]
    IN PressedRequestAccess(h) /\ h.reply # "Failed to submit request."
         => /\ h.user \in uc.pending
            /\ h.reply = "Access Request Submitted" => h.notified = h.admins

----------------------------------------------------------------------------
(* Claims about the API keys and the MCP HTTP server                       *)

\* the bearer token of an Authorization header ("" when it carries none)
BearerOf(header) ==
  IF Len(header) > 7 /\ SubSeq(header, 1, 7) \in {"Bearer ", "bearer "}
    THEN SubSeq(header, 8, Len(header))
    ELSE ""

Configured(key) == isValidAPIKey(uc.keys \o uc.env, key)

\* C32: the MCP HTTP server executes a JSON-RPC method only for a request
\* whose bearer token is a currently configured API key; every other request
\* is answered with the authentication error and executes nothing.
C32_ExecutesOnlyWithKey ==
  \A i \in 1..Len(uc.last) :
    LET l == uc.last[i]
    IN l.kind = "request" /\ ~Configured(BearerOf(l.header))
         => ~l.executed /\ l.code = -32001

\* C38: selecting a key in the Delete API Key menu removes exactly that key
\* from the storage, and a request with that key is rejected afterwards.
C38_SelectedKeyRemoved ==
  \A i \in 1..Len(uc.last) :
    LET l == uc.last[i]
    IN l.kind = "delete" /\ isValidAPIKey(l.before, l.selected)
         => /\ uc.keys = SelectSeq(l.before, LAMBDA k : k # l.selected)
            /\ ~handleRequest(uc.keys, uc.env, "Bearer " \o l.selected,
                              "POST", "tools/call").executed

----------------------------------------------------------------------------
(* Claims about the record a press acts on                                 *)

RowLabel(r) == r.Name \o " (" \o r.Type \o ")"

\* the message is the detail view of a record with r's name, type and
\* content
Shows(msg, r) ==
  /\ Contains(msg.text, "Record Details")
  /\ Contains(msg.text, "\nName: " \o r.Name \o "\nType: " \o r.Type
                          \o "\nContent: " \o r.Content \o "\n")

\* the message is the detail view of the record row b was rendered for
ShowsRecordOfRow(msg, b) ==
  \E i \in DOMAIN RowsList :
    /\ b.text = RowLabel(RowsList[i])
    /\ Shows(msg, RowsList[i])

\* C33: when the record list changed between the rendering of a row and the
\* press of its button, the press acts on the record the row showed or
\* reports "not found", never on another record.
C33_StaleRowSameRecord ==
  [][\A m \in DOMAIN msgs : \A b \in RowsOf(msgs[m]) :
        Press(m, b, FALSE)
          => \/ msgs'[m].text = "Record not found."
             \/ ShowsRecordOfRow(msgs'[m], b)]_vars

\* the records after Delete and Yes, Delete are pressed in the detail view
\* that message m shows
AfterDelete(m, r) ==
  LET asked == handleCallback(World, TheUser, m,
                 "delete_record:" \o Zones[1] \o ":" \o r.Name, FALSE)
      yes == CHOOSE b \in asked.msgs[m].kb : ActionIs(b, "confirm_delete")
  IN handleCallback(asked, TheUser, m, yes.data, FALSE).records

\* the records after Edit and Toggle Proxy are pressed in the detail view
\* that message m shows
AfterToggle(m, r) ==
  LET opened == handleCallback(World, TheUser, m,
                  "edit_record:" \o Zones[1] \o ":" \o r.Name, FALSE)
  IN handleCallback(opened, TheUser, m, "edit_proxied", FALSE).records

\* C34: with the record list unchanged, Delete and its confirmation, or an
\* edit, started from a record's detail view, change exactly the record the
\* view displays, also when another record of the zone has the same name.
C34_DetailActsOnShown ==
  \A m \in DOMAIN msgs, i \in DOMAIN records :
    Shows(msgs[m], records[i])
      => /\ AfterDelete(m, records[i])
              = SelectSeq(records, LAMBDA r : r.ID # records[i].ID)
         /\ AfterToggle(m, records[i])
              = [records EXCEPT ![i].Proxied = ~records[i].Proxied]

\* C37: after a Toggle Proxy that the bot reports as successful, the
\* proxied flag of the record open in the edit menu is the negation of what
\* it was, from off to on and from on to off.
C37_ToggleNegatesFlag ==
  [][\A m \in DOMAIN msgs : \A b \in msgs[m].kb : \A fail \in BOOLEAN :
        (/\ ActionIs(b, "edit_proxied")
         /\ Press(m, b, fail)
         /\ handleCallback(World, TheUser, m, b.data, fail).calls
              = <<"update">>
         /\ Contains(msgs'[m].text, "Proxy status updated!"))
          => /\ OpenRecord(records').err = NoErr
             /\ OpenRecord(records').record.Proxied
                  = ~OpenRecord(records).record.Proxied]_vars

----------------------------------------------------------------------------
(* Cancel handled while another handler of the same user runs.  Start     *)
(* gives every update a goroutine of its own; the goroutines are stepped   *)
(* from one StateManager, API or Telegram call to the next.                *)

\* the program when the user looks at the detail view of the first record
\* (message 1) and, in a create flow begun since, at the record type
\* prompt (message 2)
CancelWorld ==
  LET u == TheUser
      detail == showRecordDetailByIndex(RowsWorld, u, 1, Zones[1], 0, 0, FALSE)
      create == startCreateRecord(detail, u, FALSE)
  IN handleZoneSelectedForCreate(create, u, LastID(create.msgs), Zones[1])

\* a goroutine that handles no update yet
NoHandler ==
  [handler |-> "", at |-> "idle", msg |-> 0, data |-> "", got |-> << >>,
   res |-> NoResult, returned |-> FALSE, overlap |-> FALSE]

\* the handlers the user's presses start here
CancelHandlers == {"edit_record", "back", "cancel_create"}

\* startEditRecord's SetData calls in their order
EditKeyOrder ==
  <<"edit_zone", "edit_record_name", "edit_record_id", "edit_type",
    "edit_current_content", "edit_current_ttl", "edit_current_proxied">>

\* the value startEditRecord stores under a key
EditValue(key, zoneName, recordName, record) ==
  CASE key = "edit_zone" -> zoneName
    [] key = "edit_record_name" -> recordName
    [] key = "edit_record_id" -> record.ID
    [] key = "edit_type" -> record.Type
    [] key = "edit_current_content" -> record.Content
    [] key = "edit_current_ttl" -> record.TTL
    [] OTHER -> record.Proxied

Running(c) == c.at \notin {"idle", "done"}

InitCancel ==
  /\ now = 0
  /\ mu = 0
  /\ pc = [p \in Procs |-> "idle"]
  /\ call = [p \in Procs |-> NoCall]
  /\ ref = [p \in Procs |-> NoRef]
  /\ ret = [p \in Procs |-> NoRet]
  /\ cpc = "wait"
  /\ lastAccess = NoData
  /\ sweptIdle = [u \in Users |-> FALSE]
  /\ cleared = [p \in Procs |-> FALSE]
  /\ states = CancelWorld.states
  /\ heap = CancelWorld.heap
  /\ msgs = CancelWorld.msgs
  /\ records = CancelWorld.records
  /\ conf = [p \in Procs |-> NoHandler]
  /\ creates = 0
  /\ uc = NoUc

\* Start's "go b.handleCallback(update.CallbackQuery)": the press of a
\* button reaches goroutine p; handleCallback dispatches on the action
HandlerStart(p) ==
  /\ conf[p].at = "idle"
  /\ \E m \in DOMAIN msgs : \E b \in msgs[m].kb :
       LET action == Split(b.data, ":")[1] IN
       /\ action \in CancelHandlers
       /\ conf' = [conf EXCEPT ![p] =
            [NoHandler EXCEPT
               !.handler = action,
               !.at = IF action = "cancel_create" THEN "clear" ELSE "backend",
               !.msg = m,
               !.data = b.data,
               !.overlap = \E q \in Procs \ {p} : Running(conf[q])]]
  /\ UNCHANGED <<states, heap, msgs, records, creates>>
  /\ UNCHANGED procvars

\* the backend call of startEditRecord (GetRecord) or of startCreateRecord
\* (ListZones) returns
BackendReturns(p) ==
  /\ conf[p].at = "backend"
  /\ \E fail \in BOOLEAN :
       LET parts == Split(conf[p].data, ":")
           g == IF conf[p].handler = "edit_record"
                THEN GetRecord(World, parts[2], parts[3], fail)
                ELSE [record |-> NoRecord,
                      err |-> IF fail THEN ApiError ELSE NoErr]
       IN conf' = [conf EXCEPT ![p] =
                     [@ EXCEPT !.res = g,
                               !.returned = TRUE,
                               !.at = IF g.err # NoErr THEN "render"
                                      ELSE "set"]]
  /\ UNCHANGED <<states, heap, msgs, records, creates>>
  /\ UNCHANGED procvars

\* the next SetData of startEditRecord, or startCreateRecord's SetStep
HandlerSet(p) ==
  /\ conf[p].at = "set"
  /\ LET parts == Split(conf[p].data, ":")
         key == EditKeyOrder[Len(conf[p].got) + 1]
         got == IF conf[p].handler = "edit_record"
                THEN Append(conf[p].got, key) ELSE EditKeyOrder
         w == IF conf[p].handler = "edit_record"
              THEN SetData(World, TheUser, key,
                     EditValue(key, parts[2], parts[3], conf[p].res.record))
              ELSE SetStep(World, TheUser, StepSelectZoneForCreate)
     IN /\ states' = w.states
        /\ heap' = Collect(w.states, w.heap, ref)
        /\ conf' = [conf EXCEPT ![p] =
                      [@ EXCEPT !.got = got,
                                !.at = IF Len(got) = Len(EditKeyOrder)
                                       THEN "render" ELSE "set"]]
  /\ UNCHANGED <<msgs, records, creates>>
  /\ UNCHANGED procvars

\* the message that ends startEditRecord or startCreateRecord
HandlerRender(p) ==
  /\ conf[p].at = "render"
  /\ LET parts == Split(conf[p].data, ":")
         failed == conf[p].res.err # NoErr
     IN msgs' = IF conf[p].handler = "edit_record"
                THEN startEditRecord(World, TheUser, conf[p].msg, parts[2],
                       parts[3], failed).msgs
                ELSE startCreateRecord(World, TheUser, failed).msgs
  /\ conf' = [conf EXCEPT ![p].at = "done"]
  /\ UNCHANGED <<states, heap, records, creates>>
  /\ UNCHANGED procvars

\* handleCallback's case cancel_create: ClearState
CancelClear(p) ==
  /\ conf[p].at = "clear"
  /\ LET w == Clear(World, TheUser)
     IN /\ states' = w.states
        /\ heap' = Collect(w.states, w.heap, ref)
  /\ conf' = [conf EXCEPT ![p].at = "menu"]
  /\ UNCHANGED <<msgs, records, creates>>
  /\ UNCHANGED procvars

\* handleCallback's case cancel_create: showMainMenu
CancelMenu(p) ==
  /\ conf[p].at = "menu"
  /\ msgs' = showMainMenu(World).msgs
  /\ conf' = [conf EXCEPT ![p].at = "done"]
  /\ UNCHANGED <<states, heap, records, creates>>
  /\ UNCHANGED procvars

NextCancel ==
  \/ \E p \in Procs : HandlerStart(p)
  \/ \E p \in Procs : BackendReturns(p)
  \/ \E p \in Procs : HandlerSet(p)
  \/ \E p \in Procs : HandlerRender(p)
  \/ \E p \in Procs : CancelClear(p)
  \/ \E p \in Procs : CancelMenu(p)

SpecCancel == InitCancel /\ [][NextCancel]_vars

----------------------------------------------------------------------------
(* The MCP HTTP server's port: MCPHTTPServer.Start and Stop (main package, *)
(* printed in README.md), the stored port of pkg/storage/json_storage.go   *)
(* and the handlers of bot.go that start, stop and re-port the server.     *)
(* In SpecPort the variable uc holds the server (running, port), the       *)
(* stored port, what the user is asked (asking: the step is                *)
(* StepInputMCPHTTPPort; dialog: the port of the confirmation shown) and,  *)
(* as history, the handler that ran last and how it ended.                 *)

DefaultPort == "8875"
PortTexts == {"8875", "9000", "0", "http"}   \* what the user types as port
MaxPort == 65535

NoLast == [op |-> "", was |-> FALSE, req |-> "", err |-> NoErr]

\* MCPHTTPServer.Start; loadFail: GetMCPHTTPPort returns an error
ServerStart(s, loadFail) ==
  IF s.running THEN [s |-> s, err |-> "server is already running"]
  ELSE [s |-> [s EXCEPT !.running = TRUE,
                        !.port = IF loadFail THEN @
                                 ELSE IF s.stored = "" THEN DefaultPort
                                 ELSE s.stored],
        err |-> NoErr]

\* MCPHTTPServer.Stop; shutdownFail: http.Server.Shutdown returns an error
ServerStop(s, shutdownFail) ==
  IF ~s.running THEN [s |-> s, err |-> "server is not running"]
  ELSE IF shutdownFail THEN [s |-> s, err |-> "failed to shutdown server"]
  ELSE [s |-> [s EXCEPT !.running = FALSE], err |-> NoErr]

\* jsonStorage.SetMCPHTTPPort; saveFail: Load or Save returns an error
SetMCPHTTPPort(s, port, saveFail) ==
  IF saveFail THEN [s |-> s, err |-> "failed to write config file"]
  ELSE [s |-> [s EXCEPT !.stored = port], err |-> NoErr]

\* applyPortChange: what it leaves of the server and the store, and the
\* error it reports
applyPortChange(s, portStr, wasRunning, shutdownFail, saveFail, loadFail) ==
  LET stopped == IF wasRunning THEN ServerStop(s, shutdownFail)
                 ELSE [s |-> s, err |-> NoErr]
      saved == SetMCPHTTPPort(stopped.s, portStr, saveFail)
      started == IF wasRunning THEN ServerStart(saved.s, loadFail)
                 ELSE [s |-> saved.s, err |-> NoErr]
  IN IF stopped.err # NoErr
     THEN [s |-> stopped.s, err |-> "Error stopping server: " \o stopped.err]
     ELSE IF saved.err # NoErr
     THEN [s |-> saved.s, err |-> "Error saving port: " \o saved.err]
     ELSE IF started.err # NoErr
     THEN [s |-> started.s,
           err |-> "Error restarting server with new port: " \o started.err]
     ELSE [s |-> [started.s EXCEPT !.asking = FALSE], err |-> NoErr]

\* the history entry of an applyPortChange run on s
Applied(s, r, portStr) ==
  [r.s EXCEPT !.dialog = "",
              !.last = [op |-> "apply", was |-> s.running, req |-> portStr,
                        err |-> r.err]]

InitPort ==
  /\ now = 0
  /\ mu = 0
  /\ pc = [p \in Procs |-> "idle"]
  /\ call = [p \in Procs |-> NoCall]
  /\ ref = [p \in Procs |-> NoRef]
  /\ ret = [p \in Procs |-> NoRet]
  /\ cpc = "wait"
  /\ lastAccess = NoData
  /\ sweptIdle = [u \in Users |-> FALSE]
  /\ cleared = [p \in Procs |-> FALSE]
  /\ states = NoData
  /\ heap = NoData
  /\ msgs = << >>
  /\ records = << >>
  /\ conf = [p \in Procs |-> ConfIdle]
  /\ creates = 0
  /\ uc = [running |-> FALSE, port |-> DefaultPort, stored |-> DefaultPort,
           asking |-> FALSE, dialog |-> "", last |-> NoLast]

PortUnchanged ==
  UNCHANGED <<states, heap, msgs, records, conf, creates, now, mu, pc, call,
              ref, ret, cpc, lastAccess, sweptIdle, cleared>>

\* handleMCPHTTPStart
McpStart ==
  /\ \E loadFail \in BOOLEAN :
       LET r == IF uc.running
                THEN [s |-> uc, err |-> "MCP HTTP server is already running."]
                ELSE ServerStart(uc, loadFail)
       IN uc' = [r.s EXCEPT !.last = [op |-> "start", was |-> uc.running,
                                      req |-> "", err |-> r.err]]
  /\ PortUnchanged

\* handleMCPHTTPStop
McpStop ==
  /\ \E shutdownFail \in BOOLEAN :
       LET r == IF ~uc.running
                THEN [s |-> uc, err |-> "MCP HTTP server is already stopped."]
                ELSE ServerStop(uc, shutdownFail)
       IN uc' = [r.s EXCEPT !.last = [op |-> "stop", was |-> uc.running,
                                      req |-> "", err |-> r.err]]
  /\ PortUnchanged

\* startMCPHTTPPortChange: the Change Port button
AskPort ==
  /\ uc' = [uc EXCEPT !.asking = TRUE, !.dialog = "",
                      !.last = [NoLast EXCEPT !.op = "ask"]]
  /\ PortUnchanged

\* handleMCPHTTPPortChange: the text the user sends at the port prompt
PortText ==
  /\ uc.asking
  /\ \E portStr \in PortTexts, saveFail \in BOOLEAN :
       LET port == Atoi(portStr) IN
       uc' = IF port.err \/ port.val < 1 \/ port.val > MaxPort
             THEN [uc EXCEPT !.last = [op |-> "text", was |-> uc.running,
                                       req |-> portStr,
                                       err |-> "Invalid port number."]]
             ELSE IF uc.running
             THEN [uc EXCEPT !.dialog = portStr,
                             !.last = [op |-> "text", was |-> TRUE,
                                       req |-> portStr, err |-> NoErr]]
             ELSE Applied(uc, applyPortChange(uc, portStr, FALSE, FALSE,
                                              saveFail, FALSE), portStr)
  /\ PortUnchanged

\* handleConfirmPortChange: the Confirm button of the dialog
ConfirmPort ==
  /\ uc.dialog # ""
  /\ \E shutdownFail \in BOOLEAN, saveFail \in BOOLEAN, loadFail \in BOOLEAN :
       uc' = Applied(uc, applyPortChange(uc, uc.dialog, TRUE, shutdownFail,
                                         saveFail, loadFail), uc.dialog)
  /\ PortUnchanged

NextPort ==
  \/ McpStart
  \/ McpStop
  \/ AskPort
  \/ PortText
  \/ ConfirmPort

SpecPort == InitPort /\ [][NextPort]_vars

----------------------------------------------------------------------------
(* Two users in one chat.  Start hands every update to handleMessage or    *)
(* handleCallback, which take the user from the update (msg.From.ID,       *)
(* callback.From.ID) and the chat from its message; in a group chat both   *)
(* users see the bot's messages and press their buttons.                   *)

PairUsers == {1, 2}

\* the buttons the two users press
PairActions ==
  {"create_in_zone", "select_type", "cancel_create", "view_rec",
   "edit_record", "edit_content"}

\* the program when the record list of a zone with one record has been
\* opened twice from /start and Manage Records, in two messages
PairWorld ==
  LET zonePrompt == [text |-> "Manage Records\n\nSelect a zone:",
                     kb |-> NoKeyboard]
      w == [NoWorld EXCEPT !.records = <<RowsList[3]>>,
                           !.msgs = <<zonePrompt, zonePrompt>>]
      first == handleZoneSelectedForManage(w, TheUser, 1, Zones[1], FALSE)
  IN handleZoneSelectedForManage(first, TheUser, 2, Zones[1], FALSE)

InitPair ==
  /\ now = 0
  /\ mu = 0
  /\ pc = [p \in Procs |-> "idle"]
  /\ call = [p \in Procs |-> NoCall]
  /\ ref = [p \in Procs |-> NoRef]
  /\ ret = [p \in Procs |-> NoRet]
  /\ cpc = "wait"
  /\ lastAccess = NoData
  /\ sweptIdle = [u \in Users |-> FALSE]
  /\ cleared = [p \in Procs |-> FALSE]
  /\ states = PairWorld.states
  /\ heap = PairWorld.heap
  /\ msgs = PairWorld.msgs
  /\ records = PairWorld.records
  /\ conf = [p \in Procs |-> ConfIdle]
  /\ creates = 0
  /\ uc = NoUc

\* user u presses button b of message m
PressBy(u, m, b, fail) ==
  /\ m \in DOMAIN msgs
  /\ b \in msgs[m].kb
  /\ Pressed(b)
  /\ Split(b.data, ":")[1] \in PairActions
  /\ Commit(handleCallback(World, u, m, b.data, fail))

\* user u sends a text
TextBy(u, text, fail) == Commit(handleMessage(World, u, text, fail))

PairPress ==
  \E u \in PairUsers : \E m \in DOMAIN msgs : \E b \in msgs[m].kb :
    \E fail \in BOOLEAN : PressBy(u, m, b, fail)

PairText ==
  \E u \in PairUsers : \E text \in Texts, fail \in BOOLEAN :
    TextBy(u, text, fail)

NextPair ==
  \/ PairPress
  \/ PairText

SpecPair == InitPair /\ [][NextPair]_vars

----------------------------------------------------------------------------
(* Claims about Cancel *)

\* C35: once the user has pressed a button labelled Cancel, a free text
\* they send next makes no backend create and no backend update.
C35_NoWriteAfterCancel ==
  [][\A m \in DOMAIN msgs : \A b \in msgs[m].kb : \A fail \in BOOLEAN :
        (b.text = "Cancel" /\ Press(m, b, fail))
          => \A text \in Texts, f \in BOOLEAN :
               handleMessage(NextWorld, TheUser, text, f).calls = << >>]_vars

\* the user has no conversation state: step None and no fields
StateIsClear ==
  \/ TheUser \notin DOMAIN states
  \/ /\ heap[states[TheUser]].CurrentStep = StepNone
     /\ heap[states[TheUser]].Data = NoData

\* C36: when Cancel came in while another handler of the user was running,
\* then, once both handlers have finished, that handler's backend call has
\* returned and the user's conversation state is clear.
C36_ClearAfterConcurrentCancel ==
  \A p \in Procs, q \in Procs :
    (/\ conf[p].handler = "cancel_create"
     /\ conf[p].overlap
     /\ conf[q].handler \in {"edit_record", "back"}
     /\ conf[p].at = "done"
     /\ conf[q].at = "done")
      => conf[q].returned /\ StateIsClear

----------------------------------------------------------------------------
(* Claims about the MCP HTTP server's port *)

\* C39: after a port change applied while the server was running, the
\* server is running, and when the change is reported as done it runs on
\* the new port.
C39_PortChangeKeepsRunning ==
  (uc.last.op = "apply" /\ uc.last.was)
    => /\ uc.running
       /\ uc.last.err = NoErr => uc.port = uc.last.req

----------------------------------------------------------------------------
(* Claims about the users' conversation states *)

\* the conversation state of user u in world w
StateOf(w, u) ==
  IF u \in DOMAIN w.states
  THEN [exists |-> TRUE, state |-> w.heap[w.states[u]]]
  ELSE [exists |-> FALSE, state |-> NewUserState(u, 0)]

\* the world w as it is when user v has no conversation state
WithoutUser(w, v) ==
  [w EXCEPT !.states = [x \in DOMAIN w.states \ {v} |-> w.states[x]]]

\* the handler's results a and b are the same as far as user u sees them
SameFor(u, a, b) ==
  /\ a.msgs = b.msgs
  /\ a.records = b.records
  /\ a.calls = b.calls
  /\ StateOf(a, u) = StateOf(b, u)

\* C40: the handling of a button press or of a text of user u leaves the
\* conversation state of every other user v as it was, and does what it
\* would do if v had no conversation state.
C40_OtherUsersUntouched ==
  [][\A u \in PairUsers : \A v \in PairUsers \ {u} :
       /\ \A m \in DOMAIN msgs : \A b \in msgs[m].kb : \A fail \in BOOLEAN :
            PressBy(u, m, b, fail)
              => /\ StateOf(NextWorld, v) = StateOf(World, v)
                 /\ SameFor(u, handleCallback(World, u, m, b.data, fail),
                      handleCallback(WithoutUser(World, v), u, m, b.data, fail))
       /\ \A text \in Texts : \A fail \in BOOLEAN :
            TextBy(u, text, fail)
              => /\ StateOf(NextWorld, v) = StateOf(World, v)
                 /\ SameFor(u, handleMessage(World, u, text, fail),
                      handleMessage(WithoutUser(World, v), u, text, fail))]_vars

\* both users are in a flow of their own, at different steps
C40_Witness ==
  \E u \in PairUsers : \E v \in PairUsers \ {u} :
    /\ u \in DOMAIN states
    /\ v \in DOMAIN states
    /\ heap[states[u]].CurrentStep = StepInputRecordName
    /\ heap[states[v]].CurrentStep = StepEditRecordContent
    /\ heap[states[u]].Data # heap[states[v]].Data

====
